---- MODULE Spec2Model ----
(***************************************************************************)
(* Verification model of gunrock: the BFS functor pair driven by the       *)
(* frontier operators (Advance, Filter), and the CSC graph store built     *)
(* from an edge list (Csc::FromCoo).                                       *)
(***************************************************************************)
EXTENDS Integers, Sequences, FiniteSets, TLC

(***************************************************************************)
(* Sentinels used by bfs_functor.cuh.                                      *)
(***************************************************************************)
INVALID_NODE_ID == -1
INVALID_NODE_VALUE == -1
INVALID_PREDECESSOR_ID == -2

(***************************************************************************)
(* Bounds of the model.                                                    *)
(***************************************************************************)
NumV == 3
MaxEdges == 3
MaxIter == 3
MaxNodes == 3
MaxCooEdges == 2
MaxLifeNodes == 1
MaxLifeEdges == 1
MaxCscOps == 4
MaxShowNodes == 2
MaxDegree == 42
MaxOtherDegree == 1
MaxLine == 1
MaxOffset == 1
MaxSpaces == 1
MaxArgs == 2

VARIABLES
    graph,              \* [nodes, edges]: the read-only graph of the traversal
    src,                \* source vertex of the traversal
    MARK_PREDECESSORS,  \* ProblemData::MARK_PREDECESSORS
    max_iter,           \* host-specified maximum number of supersteps
    p,                  \* DataSlice: [d_labels, d_preds]
    frontier,           \* input frontier of the next Advance
    phase,              \* "Idle", "Loop", "Advance"
    iter,               \* supersteps completed
    done,               \* the traversal has returned to Idle
    workers,            \* one worker per edge of the running Advance
    out,                \* output queue of the running / last Advance
    p0,                 \* DataSlice at the start of the running / last Advance
    emptied,            \* number of empty frontiers produced so far
    admitted,           \* per vertex, how often it entered an output queue
    coo,                \* the edge-list graph handed to Csc::FromCoo
    FLAG,               \* GraphFlag of the Csc: [HAS_EDGE_VALUES, HAS_NODE_VALUES]
    csc,                \* the Csc object
    cscPhase,           \* "new", "built"
    retval,             \* status returned by the last Csc operation
    coo0,               \* the edge-list graph as it was given
    lastCall,           \* the last Csc operation: [op, before, freed, fail]
    cscOps,             \* number of Csc operations called so far
    shown,              \* what the last Csc::Display printed
    p_map,              \* Parameters::p_map: declared name -> Parameter_Item
    lastParam,          \* the last call on the registry and what it gave back
    lastSet,            \* per name, the value of the last successful Set
    strT,               \* the type T of the strtoT<T> call
    strIn,              \* the string given to strtoT
    strOut,             \* what strtoT returned, once it has
    csr,                \* the row-compressed graph handed to Csc::FromCsr
    tmp                 \* the temporary Coo of Csc::FromCsr as FromCsr left it

bfsVars == <<graph, src, MARK_PREDECESSORS, max_iter, p, frontier, phase,
             iter, done, workers, out, p0, emptied, admitted>>

cscVars == <<coo, FLAG, csc, cscPhase, retval, coo0, lastCall, cscOps>>

dispVars == <<shown>>

parVars == <<p_map, lastParam, lastSet>>

numVars == <<strT, strIn, strOut>>

tmpVars == <<csr, tmp>>

vars == <<bfsVars, cscVars, dispVars, parVars, numVars, tmpVars>>

\* What the actions of the traversal leave alone, and what those of the
\* graph store leave alone.
notBfsVars == <<cscVars, dispVars, parVars, numVars, tmpVars>>

notCscVars == <<bfsVars, dispVars, parVars, numVars, tmpVars>>

notParVars == <<bfsVars, cscVars, dispVars, numVars, tmpVars>>

notNumVars == <<bfsVars, cscVars, dispVars, parVars, tmpVars>>

----------------------------------------------------------------------------
(***************************************************************************)
(* Graphs of the traversal.                                                *)
(***************************************************************************)
Vertices(g) == 0 .. (g.nodes - 1)

Diamond == [nodes |-> 4, edges |-> {<<0, 1>>, <<0, 2>>, <<1, 3>>, <<2, 3>>}]

SmallGraphs ==
    { [nodes |-> NumV, edges |-> E] :
        E \in { F \in SUBSET ((0 .. NumV - 1) \X (0 .. NumV - 1)) :
                   Cardinality(F) <= MaxEdges } }

Graphs == {Diamond} \cup SmallGraphs

RECURSIVE SetToSeq(_)
SetToSeq(S) ==
    IF S = {} THEN <<>>
    ELSE LET m == CHOOSE x \in S : \A y \in S : x <= y
         IN  <<m>> \o SetToSeq(S \ {m})

Neighbors(g, v) == SetToSeq({ d \in Vertices(g) : <<v, d>> \in g.edges })

RECURSIVE EdgesOf(_, _, _)
EdgesOf(s, ns, k) ==
    IF k > Len(ns) THEN <<>>
    ELSE <<[s |-> s, d |-> ns[k]]>> \o EdgesOf(s, ns, k + 1)

RECURSIVE AdvanceEdges(_, _, _)
AdvanceEdges(g, f, k) ==
    IF k > Len(f) THEN <<>>
    ELSE EdgesOf(f[k], Neighbors(g, f[k]), 1) \o AdvanceEdges(g, f, k + 1)

----------------------------------------------------------------------------
(***************************************************************************)
(* BFSFunctor.                                                             *)
(***************************************************************************)

\* CUDA atomicCAS: returns the old value, stores val when old = compare.
atomicCAS(arr, idx, compare, val) ==
    [old |-> arr[idx],
     arr |-> IF arr[idx] = compare THEN [arr EXCEPT ![idx] = val] ELSE arr]

CondEdge_noCompare(mark, s_id, d_id, ps) ==
    IF mark
    THEN [ret |-> TRUE, p |-> [ps EXCEPT !.d_preds[d_id] = s_id]]
    ELSE [ret |-> TRUE, p |-> [ps EXCEPT !.d_labels[d_id] = s_id + 1]]

CondEdge(mark, s_id, d_id, ps) ==
    IF mark
    THEN LET c == atomicCAS(ps.d_preds, d_id, INVALID_PREDECESSOR_ID, s_id)
         IN  [ret |-> (c.old = INVALID_PREDECESSOR_ID),
              p   |-> [ps EXCEPT !.d_preds = c.arr]]
    ELSE LET c == atomicCAS(ps.d_labels, d_id, INVALID_NODE_VALUE, s_id + 1)
         IN  [ret |-> (c.old = INVALID_NODE_VALUE),
              p   |-> [ps EXCEPT !.d_labels = c.arr]]

\* ApplyEdge, p->d_labels[d_id] = p->d_labels[s_id]+1, is a load of
\* d_labels[s_id] followed by a plain store to d_labels[d_id].
ApplyEdgeLoad_sid(s_id, ps) == s_id + 1

ApplyEdgeLoad(s_id, ps) == ps.d_labels[s_id] + 1

ApplyEdgeStore(d_id, val, ps) == [ps EXCEPT !.d_labels[d_id] = val]

CondVertex_keepAll(node, ps) == TRUE

CondVertex(node, ps) == node /= INVALID_NODE_ID

ApplyVertex(node, ps) == ps

----------------------------------------------------------------------------
(***************************************************************************)
(* Filter operator: keeps the entries CondVertex accepts, running          *)
(* ApplyVertex on each of them.                                            *)
(***************************************************************************)
RECURSIVE Filter(_, _, _)
Filter(q, ps, k) ==
    IF k > Len(q) THEN [frontier |-> <<>>, p |-> ps]
    ELSE IF CondVertex(q[k], ps)
         THEN LET r == Filter(q, ApplyVertex(q[k], ps), k + 1)
              IN  [frontier |-> <<q[k]>> \o r.frontier, p |-> r.p]
         ELSE Filter(q, ps, k + 1)

----------------------------------------------------------------------------
(***************************************************************************)
(* One traversal: Idle -> seed -> {Advance -> Filter}* -> Idle.            *)
(***************************************************************************)
\* Nothing printed yet.
NoOutput == [nodes_to_show |-> 0, with_edge_values |-> FALSE,
             header |-> <<>>, lines |-> <<>>]

DisplayUnused == shown = NoOutput

\* No call on the registry yet.
NoParamCall ==
    [op |-> "none", name |-> "", status |-> 0, reports |-> FALSE,
     had |-> FALSE, sameSite |-> FALSE, sameArgs |-> FALSE,
     out0 |-> 0, out |-> 0, printed |-> {},
     argv |-> <<>>, before |-> [n \in {} |-> 0]]

\* No successful Set on any name yet.
NeverSet ==
    [n \in {"src", "quick"} |-> [set |-> FALSE, value |-> <<>>, by |-> "none"]]

ParamsUnused ==
    /\ p_map = [n \in {} |-> 0]
    /\ lastParam = NoParamCall
    /\ lastSet = NeverSet

\* No strtoT call.
NotReturned == [done |-> FALSE, neg |-> FALSE, mag |-> <<0>>]

StrUnused ==
    /\ strT = "int"
    /\ strIn = <<>>
    /\ strOut = NotReturned

\* No FromCsr call: an empty source and no temporary.
NoCsr == [nodes |-> 0, edges |-> 0, directed |-> TRUE,
          row_offsets |-> <<>>, column_indices |-> <<>>, edge_values |-> <<>>]

NoTemporary == [allocated |-> FALSE, releases |-> 0]

TmpUnused ==
    /\ csr = NoCsr
    /\ tmp = NoTemporary

CscUnused ==
    /\ DisplayUnused
    /\ ParamsUnused
    /\ StrUnused
    /\ TmpUnused
    /\ coo = [nodes |-> 0, edges |-> 0, directed |-> TRUE,
              edge_pairs |-> <<>>, edge_values |-> <<>>]
    /\ FLAG = [HAS_EDGE_VALUES |-> FALSE, HAS_NODE_VALUES |-> FALSE]
    /\ csc = [nodes |-> 0, edges |-> 0]
    /\ cscPhase = "new"
    /\ retval = 0
    /\ coo0 = coo
    /\ lastCall = [op |-> "none", before |-> {}, freed |-> <<>>, fail |-> 0]
    /\ cscOps = 0

InitDataSlice_zeroLabels(g) ==
    [d_labels |-> [v \in Vertices(g) |-> 0],
     d_preds  |-> [v \in Vertices(g) |-> INVALID_PREDECESSOR_ID]]

InitDataSlice(g) ==
    [d_labels |-> [v \in Vertices(g) |-> INVALID_NODE_VALUE],
     d_preds  |-> [v \in Vertices(g) |-> INVALID_PREDECESSOR_ID]]

Init ==
    /\ \E g \in Graphs : graph = g
    /\ src \in Vertices(graph)
    /\ MARK_PREDECESSORS \in BOOLEAN
    /\ max_iter \in 1 .. MaxIter
    /\ p = InitDataSlice(graph)
    /\ frontier = <<>>
    /\ phase = "Idle"
    /\ iter = 0
    /\ done = FALSE
    /\ workers = <<>>
    /\ out = <<>>
    /\ p0 = InitDataSlice(graph)
    /\ emptied = 0
    /\ admitted = [v \in Vertices(graph) |-> 0]
    /\ CscUnused

Seed ==
    /\ phase = "Idle"
    /\ ~done
    /\ p' = [p EXCEPT !.d_labels[src] = 0]
    /\ frontier' = <<src>>
    /\ iter' = 0
    /\ phase' = "Loop"
    /\ UNCHANGED <<graph, src, MARK_PREDECESSORS, max_iter, done, workers,
                   out, p0, emptied, admitted>>
    /\ UNCHANGED notBfsVars

LoopDone_noCap == frontier = <<>>

LoopDone == frontier = <<>> \/ iter >= max_iter

Terminate ==
    /\ phase = "Loop"
    /\ LoopDone
    /\ phase' = "Idle"
    /\ done' = TRUE
    /\ UNCHANGED <<graph, src, MARK_PREDECESSORS, max_iter, p, frontier, iter,
                   workers, out, p0, emptied, admitted>>
    /\ UNCHANGED notBfsVars

StartAdvance ==
    /\ phase = "Loop"
    /\ ~LoopDone
    /\ LET es == AdvanceEdges(graph, frontier, 1)
       IN  /\ workers' = [i \in 1 .. Len(es) |->
                             [s |-> es[i].s, d |-> es[i].d, pc |-> "cond",
                              ret |-> FALSE, val |-> 0]]
           /\ out' = [i \in 1 .. Len(es) |-> INVALID_NODE_ID]
    /\ p0' = p
    /\ phase' = "Advance"
    /\ UNCHANGED <<graph, src, MARK_PREDECESSORS, max_iter, p, frontier, iter,
                   done, emptied, admitted>>
    /\ UNCHANGED notBfsVars

\* Worker i evaluates CondEdge; without predecessor tracking ApplyEdge has
\* nothing to do and the destination is admitted at once.
WorkerCond(i) ==
    /\ phase = "Advance"
    /\ workers[i].pc = "cond"
    /\ LET w == workers[i]
           c == CondEdge(MARK_PREDECESSORS, w.s, w.d, p)
       IN  /\ p' = c.p
           /\ workers' = [workers EXCEPT
                  ![i].ret = c.ret,
                  ![i].pc  = IF c.ret /\ MARK_PREDECESSORS
                             THEN "load" ELSE "done"]
           /\ out' = IF c.ret /\ ~MARK_PREDECESSORS
                     THEN [out EXCEPT ![i] = w.d] ELSE out
           /\ admitted' = IF c.ret /\ ~MARK_PREDECESSORS
                          THEN [admitted EXCEPT ![w.d] = @ + 1] ELSE admitted
    /\ UNCHANGED <<graph, src, MARK_PREDECESSORS, max_iter, frontier, phase,
                   iter, done, p0, emptied>>
    /\ UNCHANGED notBfsVars

WorkerLoad(i) ==
    /\ phase = "Advance"
    /\ workers[i].pc = "load"
    /\ workers' = [workers EXCEPT
           ![i].val = ApplyEdgeLoad(workers[i].s, p),
           ![i].pc  = "store"]
    /\ UNCHANGED <<graph, src, MARK_PREDECESSORS, max_iter, p, frontier,
                   phase, iter, done, out, p0, emptied, admitted>>
    /\ UNCHANGED notBfsVars

WorkerStore(i) ==
    /\ phase = "Advance"
    /\ workers[i].pc = "store"
    /\ p' = ApplyEdgeStore(workers[i].d, workers[i].val, p)
    /\ workers' = [workers EXCEPT ![i].pc = "done"]
    /\ out' = [out EXCEPT ![i] = workers[i].d]
    /\ admitted' = [admitted EXCEPT ![workers[i].d] = @ + 1]
    /\ UNCHANGED <<graph, src, MARK_PREDECESSORS, max_iter, frontier, phase,
                   iter, done, p0, emptied>>
    /\ UNCHANGED notBfsVars

AllWorkersDone == \A i \in 1 .. Len(workers) : workers[i].pc = "done"

\* The barrier after Advance, then Filter over the output queue.
FilterStep ==
    /\ phase = "Advance"
    /\ AllWorkersDone
    /\ LET r == Filter(out, p, 1)
       IN  /\ frontier' = r.frontier
           /\ p' = r.p
           /\ emptied' = IF r.frontier = <<>> THEN emptied + 1 ELSE emptied
    /\ iter' = iter + 1
    /\ phase' = "Loop"
    /\ UNCHANGED <<graph, src, MARK_PREDECESSORS, max_iter, done, workers,
                   out, p0, admitted>>
    /\ UNCHANGED notBfsVars

Next ==
    \/ Seed
    \/ Terminate
    \/ StartAdvance
    \/ \E i \in 1 .. Len(workers) : WorkerCond(i)
    \/ \E i \in 1 .. Len(workers) : WorkerLoad(i)
    \/ \E i \in 1 .. Len(workers) : WorkerStore(i)
    \/ FilterStep

Spec == Init /\ [][Next]_vars

FairSpec == Spec /\ WF_vars(Next)

----------------------------------------------------------------------------
(***************************************************************************)
(* Csc: the column-compressed graph and its construction from an edge     *)
(* list.  Arrays are functions over 0 .. size-1, as in the source.         *)
(***************************************************************************)
cudaSuccess == 0

\* Error returned by the k-th fallible call of an operation.
ErrorOf(k) == 100 + k

NoData == [i \in {} |-> 0]

Released == [allocated |-> FALSE, data |-> NoData]

\* Content of a cell that has been allocated and not written yet.
Uninit == -99

\* Array1D::Allocate leaves the cells uninitialised.
Allocated(size) == [allocated |-> TRUE, data |-> [i \in 0 .. size - 1 |-> Uninit]]

ArrayNames == {"column_offsets", "row_indices", "node_values", "edge_values"}

AllocatedArrays(g) == { a \in ArrayNames : g[a].allocated }

NoCall == [op |-> "none", before |-> {}, freed |-> <<>>, fail |-> 0]

NewCsc ==
    [nodes |-> 0, edges |-> 0, directed |-> TRUE,
     column_offsets |-> Released, row_indices |-> Released,
     edge_values |-> Released, node_values |-> Released]

\* The edge value of the edge at position i of the edge list as given.
EdgeValueOf(i) == 10 + i

\* The edge-list graph with n vertices and the edge pairs ep.
CooGraph(n, m, dir, ep) ==
    [nodes |-> n, edges |-> m, directed |-> dir, edge_pairs |-> ep,
     edge_values |-> [i \in 0 .. m - 1 |-> EdgeValueOf(i)]]

Permutations0(m) ==
    { f \in [0 .. m - 1 -> 0 .. m - 1] :
        \A i, j \in 0 .. m - 1 : f[i] = f[j] => i = j }

\* Coo::Order(BY_COLUMN_ASCENDING): the edge tuples (pair and value) are
\* reordered by perm, which must put the columns in ascending order.
SortsByColumn(source, perm) ==
    \A i, j \in 0 .. source.edges - 1 :
        i < j => source.edge_pairs[perm[i]].y <= source.edge_pairs[perm[j]].y

Order(source, perm) ==
    [source EXCEPT
        !.edge_pairs  = [i \in 0 .. source.edges - 1 |-> source.edge_pairs[perm[i]]],
        !.edge_values = [i \in 0 .. source.edges - 1 |-> source.edge_values[perm[i]]]]

column_edge_compare_lessEq(edge_pair, column) == edge_pair.y <= column

column_edge_compare(edge_pair, column) == edge_pair.y < column

\* util::BinarySearch with column_edge_compare: the first position in
\* [lower_bound, upper_bound) whose edge does not compare less than column.
RECURSIVE BinarySearch(_, _, _, _)
BinarySearch(column, edge_pairs, lower_bound, upper_bound) ==
    IF lower_bound >= upper_bound THEN lower_bound
    ELSE LET mid == (lower_bound + upper_bound) \div 2
         IN  IF column_edge_compare(edge_pairs[mid], column)
             THEN BinarySearch(column, edge_pairs, mid + 1, upper_bound)
             ELSE BinarySearch(column, edge_pairs, lower_bound, mid)

\* The lambda of column_offsets.ForAll in FromCoo.
ColumnOffset_shortRange(column, edge_pairs, nodes, edges) ==
    IF column < nodes
    THEN BinarySearch(column, edge_pairs, 0, edges - 1)
    ELSE edges

ColumnOffset(column, edge_pairs, nodes, edges) ==
    IF column < nodes
    THEN BinarySearch(column, edge_pairs, 0, edges)
    ELSE edges

\* The lambda of row_indices.ForEach in FromCoo.
RowIndexOf_column(edge_pair) == edge_pair.y

RowIndexOf(edge_pair) == edge_pair.x

Allocate_noEarlyReturn(g, flag, nodes, edges, fail) ==
    LET g2 == IF fail = 2 THEN g
              ELSE [g EXCEPT !.column_offsets = Allocated(nodes + 1)]
        g3 == IF fail = 3 THEN g2
              ELSE [g2 EXCEPT !.row_indices = Allocated(edges)]
        g4 == IF fail = 4 \/ ~flag.HAS_NODE_VALUES THEN g3
              ELSE [g3 EXCEPT !.node_values = Allocated(nodes)]
        g5 == IF fail = 5 \/ ~flag.HAS_EDGE_VALUES THEN g4
              ELSE [g4 EXCEPT !.edge_values = Allocated(edges)]
    IN  [retval |-> IF \/ fail \in 1 .. 3
                       \/ (fail = 4 /\ flag.HAS_NODE_VALUES)
                       \/ (fail = 5 /\ flag.HAS_EDGE_VALUES)
                    THEN ErrorOf(fail) ELSE cudaSuccess,
         csc |-> g5]

\* Csc::Allocate; fail is the number of the first failing call, 0 for none.
\* Calls: 1 BaseGraph::Allocate, 2 column_offsets, 3 row_indices,
\* 4 node_values, 5 edge_values.  The value arrays are NullArrays, whose
\* Allocate does nothing, unless FLAG has them.
Allocate(g, flag, nodes, edges, fail) ==
    IF fail = 1 THEN [retval |-> ErrorOf(1), csc |-> g]
    ELSE LET g2 == [g EXCEPT !.column_offsets = Allocated(nodes + 1)] IN
    IF fail = 2 THEN [retval |-> ErrorOf(2), csc |-> g]
    ELSE LET g3 == [g2 EXCEPT !.row_indices = Allocated(edges)] IN
    IF fail = 3 THEN [retval |-> ErrorOf(3), csc |-> g2]
    ELSE LET g4 == IF flag.HAS_NODE_VALUES
                   THEN [g3 EXCEPT !.node_values = Allocated(nodes)] ELSE g3 IN
    IF fail = 4 /\ flag.HAS_NODE_VALUES THEN [retval |-> ErrorOf(4), csc |-> g3]
    ELSE LET g5 == IF flag.HAS_EDGE_VALUES
                   THEN [g4 EXCEPT !.edge_values = Allocated(edges)] ELSE g4 IN
    IF fail = 5 /\ flag.HAS_EDGE_VALUES THEN [retval |-> ErrorOf(5), csc |-> g4]
    ELSE [retval |-> cudaSuccess, csc |-> g5]

\* Csc::FromCoo.  Calls after Allocate: 6 source.Order, 7 row_indices.ForEach,
\* 8 edge_values.ForEach, 9 column_offsets.ForAll.
FromCoo(g, flag, source, perm, fail) ==
    LET g1 == [g EXCEPT !.nodes = source.nodes, !.edges = source.edges,
                        !.directed = source.directed]
        a  == Allocate(g1, flag, source.nodes, source.edges, fail)
    IN
    IF a.retval /= cudaSuccess
    THEN [retval |-> a.retval, csc |-> a.csc, source |-> source]
    ELSE IF fail = 6
    THEN [retval |-> ErrorOf(6), csc |-> a.csc, source |-> source]
    ELSE LET ordered == Order(source, perm)
             g2 == [a.csc EXCEPT !.row_indices.data =
                       [i \in 0 .. g1.edges - 1 |->
                           RowIndexOf(ordered.edge_pairs[i])]]
         IN
    IF fail = 7
    THEN [retval |-> ErrorOf(7), csc |-> a.csc, source |-> ordered]
    ELSE LET g3 == IF flag.HAS_EDGE_VALUES
                   THEN [g2 EXCEPT !.edge_values.data =
                           [i \in 0 .. g1.edges - 1 |-> ordered.edge_values[i]]]
                   ELSE g2
         IN
    IF fail = 8 /\ flag.HAS_EDGE_VALUES
    THEN [retval |-> ErrorOf(8), csc |-> g2, source |-> ordered]
    ELSE LET g4 == [g3 EXCEPT !.column_offsets.data =
                       [column \in 0 .. g1.nodes |->
                           ColumnOffset(column, ordered.edge_pairs,
                                        g1.nodes, g1.edges)]]
         IN
    IF fail = 9
    THEN [retval |-> ErrorOf(9), csc |-> g3, source |-> ordered]
    ELSE [retval |-> cudaSuccess, csc |-> g4, source |-> ordered]

BfsUnused ==
    /\ graph = Diamond
    /\ src = 0
    /\ MARK_PREDECESSORS = TRUE
    /\ max_iter = 1
    /\ p = InitDataSlice(Diamond)
    /\ frontier = <<>>
    /\ phase = "Idle"
    /\ iter = 0
    /\ done = FALSE
    /\ workers = <<>>
    /\ out = <<>>
    /\ p0 = InitDataSlice(Diamond)
    /\ admitted = [v \in Vertices(Diamond) |-> 0]
    /\ emptied = 0

InitCsc ==
    /\ BfsUnused
    /\ DisplayUnused
    /\ ParamsUnused
    /\ StrUnused
    /\ TmpUnused
    /\ \E n \in 0 .. MaxNodes, m \in 0 .. MaxCooEdges, dir \in BOOLEAN :
          \E ep \in [0 .. m - 1 -> [x : 0 .. n - 1, y : 0 .. n - 1]] :
              coo = CooGraph(n, m, dir, ep)
    /\ FLAG \in [HAS_EDGE_VALUES : BOOLEAN, HAS_NODE_VALUES : BOOLEAN]
    /\ csc = NewCsc
    /\ cscPhase = "new"
    /\ retval = cudaSuccess
    /\ coo0 = coo
    /\ lastCall = NoCall
    /\ cscOps = 0

CscFromCoo ==
    /\ cscPhase = "new"
    /\ \E fail \in 0 .. 9, perm \in Permutations0(coo.edges) :
          /\ SortsByColumn(coo, perm)
          /\ LET r == FromCoo(csc, FLAG, coo, perm, fail)
             IN  /\ csc' = r.csc
                 /\ coo' = r.source
                 /\ retval' = r.retval
          /\ lastCall' = [op |-> "FromCoo", before |-> AllocatedArrays(csc),
                          freed |-> <<>>, fail |-> fail]
    /\ cscPhase' = "built"
    /\ cscOps' = cscOps + 1
    /\ UNCHANGED <<FLAG, coo0>>
    /\ UNCHANGED notCscVars

NextCsc ==
    \/ CscFromCoo

SpecCsc == InitCsc /\ [][NextCsc]_vars

----------------------------------------------------------------------------
(***************************************************************************)
(* Life cycle of a Csc: Allocate, FromCoo and Release called in any order. *)
(***************************************************************************)

\* Array1D::Release frees the storage of an allocated array and does
\* nothing on a released one; freed lists the arrays whose storage was
\* freed so far.
ArrayRelease(g, name, freed) ==
    [csc   |-> [g EXCEPT ![name] = Released],
     freed |-> IF g[name].allocated THEN Append(freed, name) ELSE freed]

Release_skipNodeValues(g) ==
    LET r1 == ArrayRelease(g, "column_offsets", <<>>)
        r2 == ArrayRelease(r1.csc, "row_indices", r1.freed)
        r4 == ArrayRelease(r2.csc, "edge_values", r2.freed)
    IN  [retval |-> cudaSuccess, csc |-> r4.csc, freed |-> r4.freed]

\* Csc::Release.
Release(g) ==
    LET r1 == ArrayRelease(g, "column_offsets", <<>>)
        r2 == ArrayRelease(r1.csc, "row_indices", r1.freed)
        r3 == ArrayRelease(r2.csc, "node_values", r2.freed)
        r4 == ArrayRelease(r3.csc, "edge_values", r3.freed)
    IN  [retval |-> cudaSuccess, csc |-> r4.csc, freed |-> r4.freed]

InitCscLife ==
    /\ BfsUnused
    /\ DisplayUnused
    /\ ParamsUnused
    /\ StrUnused
    /\ TmpUnused
    /\ \E n \in 1 .. MaxLifeNodes, m \in 0 .. MaxLifeEdges :
          \E ep \in [0 .. m - 1 -> [x : 0 .. n - 1, y : 0 .. n - 1]] :
              coo = CooGraph(n, m, TRUE, ep)
    /\ FLAG \in [HAS_EDGE_VALUES : BOOLEAN, HAS_NODE_VALUES : BOOLEAN]
    /\ csc = NewCsc
    /\ cscPhase = "new"
    /\ retval = cudaSuccess
    /\ coo0 = coo
    /\ lastCall = NoCall
    /\ cscOps = 0

LifeAllocate ==
    /\ cscOps < MaxCscOps
    /\ \E fail \in 0 .. 5 :
          /\ LET r == Allocate(csc, FLAG, coo.nodes, coo.edges, fail)
             IN  /\ csc' = r.csc
                 /\ retval' = r.retval
          /\ lastCall' = [op |-> "Allocate", before |-> AllocatedArrays(csc),
                          freed |-> <<>>, fail |-> fail]
    /\ cscOps' = cscOps + 1
    /\ UNCHANGED <<coo, FLAG, cscPhase, coo0>>
    /\ UNCHANGED notCscVars

LifeFromCoo ==
    /\ cscOps < MaxCscOps
    /\ \E fail \in 0 .. 9, perm \in Permutations0(coo.edges) :
          /\ SortsByColumn(coo, perm)
          /\ LET r == FromCoo(csc, FLAG, coo, perm, fail)
             IN  /\ csc' = r.csc
                 /\ coo' = r.source
                 /\ retval' = r.retval
          /\ lastCall' = [op |-> "FromCoo", before |-> AllocatedArrays(csc),
                          freed |-> <<>>, fail |-> fail]
    /\ cscPhase' = "built"
    /\ cscOps' = cscOps + 1
    /\ UNCHANGED <<FLAG, coo0>>
    /\ UNCHANGED notCscVars

LifeRelease ==
    /\ cscOps < MaxCscOps
    /\ LET r == Release(csc)
       IN  /\ csc' = r.csc
           /\ retval' = r.retval
           /\ lastCall' = [op |-> "Release", before |-> AllocatedArrays(csc),
                           freed |-> r.freed, fail |-> 0]
    /\ cscPhase' = "new"
    /\ cscOps' = cscOps + 1
    /\ UNCHANGED <<coo, FLAG, coo0>>
    /\ UNCHANGED notCscVars

NextCscLife ==
    \/ LifeAllocate
    \/ LifeFromCoo
    \/ LifeRelease

SpecCscLife == InitCscLife /\ [][NextCscLife]_vars

----------------------------------------------------------------------------
(***************************************************************************)
(* Csc::FromCsr: through a temporary edge-list graph.                      *)
(***************************************************************************)

\* The row-compressed graph of the edge pairs ep, which are in row order.
CsrGraph(n, m, ep) ==
    [nodes |-> n, edges |-> m, directed |-> TRUE,
     row_offsets    |-> [r \in 0 .. n |->
                           Cardinality({ i \in 0 .. m - 1 : ep[i].x < r })],
     column_indices |-> [i \in 0 .. m - 1 |-> ep[i].y],
     edge_values    |-> [i \in 0 .. m - 1 |-> EdgeValueOf(i)]]

\* The row of edge i of a row-compressed graph.
RowOf(source, i) ==
    CHOOSE r \in 0 .. source.nodes - 1 :
        source.row_offsets[r] <= i /\ i < source.row_offsets[r + 1]

EmptyCoo == [nodes |-> 0, edges |-> 0, directed |-> TRUE,
             edge_pairs |-> <<>>, edge_values |-> <<>>]

\* Coo::FromCsr: allocates the edge list and expands every row into its
\* edge tuples.  When it fails the edge list may or may not be allocated.
CooFromCsr(source, fails, partial) ==
    IF fails
    THEN [retval |-> ErrorOf(10), coo |-> EmptyCoo, allocated |-> partial]
    ELSE [retval |-> cudaSuccess,
          coo |-> [nodes |-> source.nodes, edges |-> source.edges,
                   directed |-> source.directed,
                   edge_pairs |-> [i \in 0 .. source.edges - 1 |->
                                     [x |-> RowOf(source, i),
                                      y |-> source.column_indices[i]]],
                   edge_values |-> source.edge_values],
          allocated |-> TRUE]

\* Csc::FromCsr.  Call 10 is coo.FromCsr, calls 1 .. 9 are those of
\* FromCoo; coo.Release is reached only when both succeeded, and leaving
\* the function does not release coo (no destructor of the graph classes
\* calls Release).
FromCsr(g, flag, source, perm, fail, partial) ==
    LET e == CooFromCsr(source, fail = 10, partial)
    IN  IF e.retval /= cudaSuccess
        THEN [retval |-> e.retval, csc |-> g, coo |-> e.coo,
              tmp |-> [allocated |-> e.allocated, releases |-> 0]]
        ELSE LET f == FromCoo(g, flag, e.coo, perm, fail)
             IN  IF f.retval /= cudaSuccess
                 THEN [retval |-> f.retval, csc |-> f.csc, coo |-> f.source,
                       tmp |-> [allocated |-> TRUE, releases |-> 0]]
                 ELSE [retval |-> cudaSuccess, csc |-> f.csc, coo |-> f.source,
                       tmp |-> [allocated |-> FALSE, releases |-> 1]]

InitFromCsr ==
    /\ BfsUnused
    /\ DisplayUnused
    /\ ParamsUnused
    /\ StrUnused
    /\ \E n \in 1 .. MaxNodes, m \in 0 .. MaxCooEdges :
          \E ep \in [0 .. m - 1 -> [x : 0 .. n - 1, y : 0 .. n - 1]] :
              /\ \A i, j \in 0 .. m - 1 : i < j => ep[i].x <= ep[j].x
              /\ csr = CsrGraph(n, m, ep)
    /\ tmp = NoTemporary
    /\ coo = EmptyCoo
    /\ FLAG \in [HAS_EDGE_VALUES : BOOLEAN, HAS_NODE_VALUES : BOOLEAN]
    /\ csc = NewCsc
    /\ cscPhase = "new"
    /\ retval = cudaSuccess
    /\ coo0 = coo
    /\ lastCall = NoCall
    /\ cscOps = 0

CscFromCsr ==
    /\ cscPhase = "new"
    /\ \E fail \in 0 .. 10, partial \in BOOLEAN,
          perm \in Permutations0(csr.edges) :
          /\ SortsByColumn(CooFromCsr(csr, FALSE, FALSE).coo, perm)
          /\ LET r == FromCsr(csc, FLAG, csr, perm, fail, partial)
             IN  /\ csc' = r.csc
                 /\ coo' = r.coo
                 /\ tmp' = r.tmp
                 /\ retval' = r.retval
          /\ lastCall' = [op |-> "FromCsr", before |-> AllocatedArrays(csc),
                          freed |-> <<>>, fail |-> fail]
    /\ cscPhase' = "built"
    /\ cscOps' = cscOps + 1
    /\ coo0' = CooFromCsr(csr, FALSE, FALSE).coo
    /\ UNCHANGED <<FLAG, csr>>
    /\ UNCHANGED <<bfsVars, dispVars, parVars, numVars>>

NextFromCsr == CscFromCsr

SpecFromCsr == InitFromCsr /\ [][NextFromCsr]_vars

----------------------------------------------------------------------------
(***************************************************************************)
(* Csc::Display.                                                           *)
(***************************************************************************)
DisplayCap == 40

ClampNodes_all(nodes_to_show, nodes) == nodes

\* if (nodes_to_show > nodes) nodes_to_show = nodes;
ClampNodes(nodes_to_show, nodes) ==
    IF nodes_to_show > nodes THEN nodes ELSE nodes_to_show

\* The inner loop of Display from position edge on: one entry per printed
\* neighbor, with its row index, its edge value if shown, and whether its
\* closing bracket is followed by a comma.
RECURSIVE NeighborEntries(_, _, _, _, _)
NeighborEntries(g, showValues, node, edge, str) ==
    LET first == g.column_offsets.data[node]
        end   == g.column_offsets.data[node + 1]
    IN  IF ~(edge < end) THEN str
        ELSE IF edge - first > DisplayCap THEN str
        ELSE NeighborEntries(g, showValues, node, edge + 1,
                 Append(str,
                     [row   |-> g.row_indices.data[edge],
                      value |-> IF showValues
                                THEN <<g.edge_values.data[edge]>> ELSE <<>>,
                      comma |-> (edge - first /= DisplayCap /\ edge /= end - 1)]))

\* The line printed for one vertex.
VertexLine(g, showValues, node) ==
    [entries |-> NeighborEntries(g, showValues, node,
                                 g.column_offsets.data[node], <<>>),
     marker  |-> g.column_offsets.data[node + 1]
                     - g.column_offsets.data[node] > DisplayCap,
     node    |-> node,
     offset  |-> g.column_offsets.data[node]]

\* Csc::Display.
Display(g, flag, nodes_to_show, with_edge_values) ==
    LET n == ClampNodes(nodes_to_show, g.nodes)
    IN  [retval |-> cudaSuccess,
         csc    |-> g,
         header |-> <<g.nodes, g.edges, n>>,
         lines  |-> [k \in 1 .. n |->
                        VertexLine(g, with_edge_values /\ flag.HAS_EDGE_VALUES,
                                   k - 1)]]

\* The column-ordered edge list in which vertex 0 has d0 incoming edges and
\* every other vertex has d1.
DegreeGraph(n, d0, d1) ==
    LET m == d0 + (n - 1) * d1
    IN  CooGraph(n, m, TRUE,
            [i \in 0 .. m - 1 |->
                [x |-> i % n,
                 y |-> IF i < d0 THEN 0 ELSE 1 + ((i - d0) \div d1)]])

InitDisplay ==
    /\ BfsUnused
    /\ DisplayUnused
    /\ ParamsUnused
    /\ StrUnused
    /\ TmpUnused
    /\ \E n \in 1 .. MaxShowNodes, d0 \in 0 .. MaxDegree,
          d1 \in 0 .. MaxOtherDegree :
              coo = DegreeGraph(n, d0, d1)
    /\ FLAG \in [HAS_EDGE_VALUES : BOOLEAN, HAS_NODE_VALUES : BOOLEAN]
    /\ csc = FromCoo(NewCsc, FLAG, coo, [i \in 0 .. coo.edges - 1 |-> i], 0).csc
    /\ cscPhase = "built"
    /\ retval = cudaSuccess
    /\ coo0 = coo
    /\ lastCall = NoCall
    /\ cscOps = 0

CscDisplay ==
    /\ cscPhase = "built"
    /\ \E nodes_to_show \in 0 .. csc.nodes + 1, with_edge_values \in BOOLEAN :
          LET r == Display(csc, FLAG, nodes_to_show, with_edge_values)
          IN  /\ csc' = r.csc
              /\ retval' = r.retval
              /\ shown' = [nodes_to_show |-> nodes_to_show,
                           with_edge_values |-> with_edge_values,
                           header |-> r.header, lines |-> r.lines]
    /\ cscPhase' = "shown"
    /\ UNCHANGED <<coo, FLAG, coo0, lastCall, cscOps>>
    /\ UNCHANGED <<bfsVars, parVars, numVars, tmpVars>>

NextDisplay == CscDisplay

SpecDisplay == InitDisplay /\ [][NextDisplay]_vars

----------------------------------------------------------------------------
(***************************************************************************)
(* util::Parameters.  Values are strings, written as sequences of          *)
(* characters; names, descriptions, type names and file names are only     *)
(* compared.                                                               *)
(***************************************************************************)
cudaErrorInvalidValue == 11
cudaErrorInvalidSymbol == 13

ParamNames == {"src", "quick"}

FileNames == {"app.cu", "test.cu"}

\* The declarations the callers make: flag, type, default and description.
Declarations ==
    { [flag |-> {"REQUIRED_ARGUMENT", "SINGLE_VALUE", "REQUIRED_PARAMETER"},
       type |-> "int", default_value |-> <<>>, description |-> "source vertex"],
      [flag |-> {"REQUIRED_ARGUMENT", "SINGLE_VALUE", "REQUIRED_PARAMETER"},
       type |-> "int", default_value |-> <<"1">>, description |-> "iterations"],
      [flag |-> {"OPTIONAL_ARGUMENT", "MULTI_VALUE", "OPTIONAL_PARAMETER"},
       type |-> "int", default_value |-> <<"0">>, description |-> "devices"],
      [flag |-> {"NO_ARGUMENT", "OPTIONAL_PARAMETER"}, type |-> "bool",
       default_value |-> <<"f", "a", "l", "s", "e">>, description |-> "quick mode"],
      [flag |-> {"NO_ARGUMENT", "OPTIONAL_PARAMETER"}, type |-> "int",
       default_value |-> <<"0">>, description |-> "quiet mode"] }

\* The strings given to Set and held by the callers of Get.
SetValues == { <<>>, <<"2">>, <<"1", ",", "2">> }

\* The integers a caller's variable holds before a read.
IntSamples == {-1, 7}

\* (flag & f) == f
HasFlag(flag, f) == f \in flag

Declared(pm, name) == name \in DOMAIN pm

\* p_map[name] = p_item
Store(pm, name, p_item) ==
    [n \in DOMAIN pm \cup {name} |-> IF n = name THEN p_item ELSE pm[n]]

NewItem(name, flag, default_value, description, type, file_name, line_num) ==
    [name |-> name, flag |-> flag, default_value |-> default_value,
     description |-> description, value |-> default_value,
     use_default |-> TRUE, value_type_info |-> type,
     file_name |-> file_name, line_num |-> line_num]

Use_storeFirst(pm, name, flag, default_value, description, type, file_name, line_num) ==
    IF HasFlag(flag, "NO_ARGUMENT") /\ type /= "bool"
    THEN [retval |-> cudaErrorInvalidValue, p_map |-> pm]
    ELSE LET p_item == NewItem(name, flag, default_value, description, type,
                               file_name, line_num)
         IN  IF /\ Declared(pm, name)
                /\ (pm[name].file_name /= file_name \/ pm[name].line_num /= line_num)
             THEN [retval |-> cudaErrorInvalidSymbol, p_map |-> Store(pm, name, p_item)]
             ELSE [retval |-> cudaSuccess, p_map |-> Store(pm, name, p_item)]

\* Parameters::Use.
Use(pm, name, flag, default_value, description, type, file_name, line_num) ==
    IF HasFlag(flag, "NO_ARGUMENT") /\ type /= "bool"
    THEN [retval |-> cudaErrorInvalidValue, p_map |-> pm]
    ELSE LET p_item == NewItem(name, flag, default_value, description, type,
                               file_name, line_num)
         IN  IF /\ Declared(pm, name)
                /\ (pm[name].file_name /= file_name \/ pm[name].line_num /= line_num)
             THEN [retval |-> cudaErrorInvalidSymbol, p_map |-> pm]
             ELSE [retval |-> cudaSuccess, p_map |-> Store(pm, name, p_item)]

\* Parameters::Set(name, std::string).
Set(pm, name, value) ==
    IF ~Declared(pm, name)
    THEN [retval |-> cudaErrorInvalidValue, p_map |-> pm]
    ELSE [retval |-> cudaSuccess,
          p_map  |-> [pm EXCEPT ![name].value = value,
                                ![name].use_default = FALSE]]

\* Parameters::Get(name, std::string &value); value0 is what the caller's
\* variable held.
GetString(pm, name, value0) ==
    IF ~Declared(pm, name)
    THEN [retval |-> cudaErrorInvalidValue, value |-> value0]
    ELSE [retval |-> cudaSuccess, value |-> pm[name].value]

Digits == {"0", "1", "2", "3", "4", "5", "6", "7", "8", "9"}

DigitOf(c) ==
    CASE c = "0" -> 0 [] c = "1" -> 1 [] c = "2" -> 2 [] c = "3" -> 3
      [] c = "4" -> 4 [] c = "5" -> 5 [] c = "6" -> 6 [] c = "7" -> 7
      [] c = "8" -> 8 [] c = "9" -> 9

RECURSIVE SkipSpaces(_, _)
SkipSpaces(str, i) ==
    IF i <= Len(str) /\ str[i] = " " THEN SkipSpaces(str, i + 1) ELSE i

\* The value of the digits of str from position i on, after acc.
RECURSIVE DigitsValue(_, _, _)
DigitsValue(str, i, acc) ==
    IF i <= Len(str) /\ str[i] \in Digits
    THEN DigitsValue(str, i + 1, 10 * acc + DigitOf(str[i]))
    ELSE acc

\* std::istringstream(str) >> value for an int: nothing to read leaves
\* value as it was, no digits gives 0, else the leading numeral.
IStreamInt(str, value0) ==
    LET i    == SkipSpaces(str, 1)
        neg  == i <= Len(str) /\ str[i] = "-"
        sign == i <= Len(str) /\ str[i] \in {"-", "+"}
        j    == IF sign THEN i + 1 ELSE i
    IN  IF i > Len(str) THEN value0
        ELSE IF ~(j <= Len(str) /\ str[j] \in Digits) THEN 0
        ELSE IF neg THEN 0 - DigitsValue(str, j, 0)
        ELSE DigitsValue(str, j, 0)

\* template Parameters::Get(name, T &value), for T = int.
GetTyped(pm, name, value0) ==
    LET g == GetString(pm, name, <<>>)
    IN  IF g.retval /= cudaSuccess
        THEN [retval |-> g.retval, value |-> value0]
        ELSE [retval |-> cudaSuccess, value |-> IStreamInt(g.value, value0)]

\* template T Parameters::Get(name), for T = int: val is what the
\* uninitialized local happens to hold.
GetValue(pm, name, val) == GetTyped(pm, name, val).value

\* Parameters::Check_Required: the names it reports on the error stream.
Check_Required(pm) ==
    [retval  |-> cudaSuccess,
     printed |-> { n \in DOMAIN pm :
                    /\ HasFlag(pm[n].flag, "REQUIRED_PARAMETER")
                    /\ pm[n].value = <<>> }]

InitParams ==
    /\ BfsUnused
    /\ CscUnused
    /\ p_map = [n \in {} |-> 0]
    /\ lastParam = NoParamCall
    /\ lastSet = NeverSet

ParamUse ==
    /\ \E name \in ParamNames, d \in Declarations, file_name \in FileNames,
          line_num \in 1 .. MaxLine :
          LET r == Use(p_map, name, d.flag, d.default_value, d.description,
                       d.type, file_name, line_num)
          IN  /\ p_map' = r.p_map
              /\ lastParam' = [NoParamCall EXCEPT
                    !.op = "Use", !.name = name, !.status = r.retval,
                    !.reports = TRUE, !.had = Declared(p_map, name),
                    !.sameSite = /\ Declared(p_map, name)
                                 /\ p_map[name].file_name = file_name
                                 /\ p_map[name].line_num = line_num,
                    !.sameArgs = /\ Declared(p_map, name)
                                 /\ p_map[name].flag = d.flag
                                 /\ p_map[name].default_value = d.default_value
                                 /\ p_map[name].description = d.description
                                 /\ p_map[name].value_type_info = d.type]
    /\ UNCHANGED lastSet
    /\ UNCHANGED notParVars

ParamSet ==
    /\ \E name \in ParamNames, value \in SetValues :
          LET r == Set(p_map, name, value)
          IN  /\ p_map' = r.p_map
              /\ lastParam' = [NoParamCall EXCEPT
                    !.op = "Set", !.name = name, !.status = r.retval,
                    !.reports = TRUE, !.had = Declared(p_map, name),
                    !.out0 = value, !.out = value]
              /\ lastSet' = IF r.retval = cudaSuccess
                            THEN [lastSet EXCEPT
                                     ![name] = [set |-> TRUE, value |-> value,
                                                by |-> "Set"]]
                            ELSE lastSet
    /\ UNCHANGED notParVars

ParamGetString ==
    /\ \E name \in ParamNames, value0 \in SetValues :
          LET r == GetString(p_map, name, value0)
          IN  lastParam' = [NoParamCall EXCEPT
                    !.op = "GetString", !.name = name, !.status = r.retval,
                    !.reports = TRUE, !.had = Declared(p_map, name),
                    !.out0 = value0, !.out = r.value]
    /\ UNCHANGED <<p_map, lastSet>>
    /\ UNCHANGED notParVars

ParamGetTyped ==
    /\ \E name \in ParamNames, value0 \in IntSamples :
          LET r == GetTyped(p_map, name, value0)
          IN  lastParam' = [NoParamCall EXCEPT
                    !.op = "GetTyped", !.name = name, !.status = r.retval,
                    !.reports = TRUE, !.had = Declared(p_map, name),
                    !.out0 = value0, !.out = r.value]
    /\ UNCHANGED <<p_map, lastSet>>
    /\ UNCHANGED notParVars

\* T Get(name) returns only the value: no status reaches the caller.
ParamGetValue ==
    /\ \E name \in ParamNames, val \in IntSamples :
          lastParam' = [NoParamCall EXCEPT
                    !.op = "GetValue", !.name = name, !.status = cudaSuccess,
                    !.reports = FALSE, !.had = Declared(p_map, name),
                    !.out0 = val, !.out = GetValue(p_map, name, val)]
    /\ UNCHANGED <<p_map, lastSet>>
    /\ UNCHANGED notParVars

ParamCheckRequired ==
    /\ LET r == Check_Required(p_map)
       IN  lastParam' = [NoParamCall EXCEPT
                    !.op = "Check_Required", !.status = r.retval,
                    !.reports = TRUE, !.printed = r.printed]
    /\ UNCHANGED <<p_map, lastSet>>
    /\ UNCHANGED notParVars

NextParams ==
    \/ ParamUse
    \/ ParamSet
    \/ ParamGetString
    \/ ParamGetTyped
    \/ ParamGetValue
    \/ ParamCheckRequired

SpecParams == InitParams /\ [][NextParams]_vars

----------------------------------------------------------------------------
(***************************************************************************)
(* strtoT<T> for the integer types narrower than long.  Numbers are kept   *)
(* exactly: a magnitude is its sequence of decimal digits, most            *)
(* significant first and without leading zeros, and a signed number is a   *)
(* magnitude with a sign.                                                  *)
(***************************************************************************)
RECURSIVE BigNorm(_)
BigNorm(a) == IF Len(a) > 1 /\ a[1] = 0 THEN BigNorm(Tail(a)) ELSE a

PadTo(a, n) ==
    [i \in 1 .. n |-> IF i <= n - Len(a) THEN 0 ELSE a[i - (n - Len(a))]]

BigLess(a, b) ==
    IF Len(a) /= Len(b) THEN Len(a) < Len(b)
    ELSE \E i \in 1 .. Len(a) :
            /\ a[i] < b[i]
            /\ \A j \in 1 .. i - 1 : a[j] = b[j]

RECURSIVE AddFrom(_, _, _, _, _)
AddFrom(a, b, i, carry, acc) ==
    IF i = 0 THEN acc
    ELSE LET sum == a[i] + b[i] + carry
         IN  AddFrom(a, b, i - 1, sum \div 10, <<sum % 10>> \o acc)

BigAdd(a, b) ==
    LET n == (IF Len(a) > Len(b) THEN Len(a) ELSE Len(b)) + 1
    IN  BigNorm(AddFrom(PadTo(a, n), PadTo(b, n), n, 0, <<>>))

RECURSIVE SubFrom(_, _, _, _, _)
SubFrom(a, b, i, borrow, acc) ==
    IF i = 0 THEN acc
    ELSE LET d == a[i] - b[i] - borrow
         IN  IF d < 0
             THEN SubFrom(a, b, i - 1, 1, <<d + 10>> \o acc)
             ELSE SubFrom(a, b, i - 1, 0, <<d>> \o acc)

\* a - b, for a >= b.
BigSub(a, b) == BigNorm(SubFrom(a, PadTo(b, Len(a)), Len(a), 0, <<>>))

Zero == <<0>>

One == <<1>>

Signed(neg, mag) == [neg |-> neg /\ mag /= Zero, mag |-> mag]

SLess(a, b) ==
    IF a.neg /= b.neg THEN a.neg
    ELSE IF a.neg THEN BigLess(b.mag, a.mag)
    ELSE BigLess(a.mag, b.mag)

\* <limits.h> of an LP64 build with a signed char type.
SCHAR_MAX == <<1, 2, 7>>

UCHAR_MAX == <<2, 5, 5>>

SHRT_MAX == <<3, 2, 7, 6, 7>>

USHRT_MAX == <<6, 5, 5, 3, 5>>

INT_MAX == <<2, 1, 4, 7, 4, 8, 3, 6, 4, 7>>

UINT_MAX == <<4, 2, 9, 4, 9, 6, 7, 2, 9, 5>>

LONG_MAX == <<9, 2, 2, 3, 3, 7, 2, 0, 3, 6, 8, 5, 4, 7, 7, 5, 8, 0, 7>>

ULONG_MAX == <<1, 8, 4, 4, 6, 7, 4, 4, 0, 7, 3, 7, 0, 9, 5, 5, 1, 6, 1, 5>>

IntTypes == {"char", "signed char", "unsigned char", "short",
             "unsigned short", "int", "unsigned int"}

IsUnsigned(T) == T \in {"unsigned char", "unsigned short", "unsigned int"}

\* The largest value of T.
MaxOf(T) ==
    Signed(FALSE,
        CASE T \in {"char", "signed char"} -> SCHAR_MAX
          [] T = "unsigned char"           -> UCHAR_MAX
          [] T = "short"                   -> SHRT_MAX
          [] T = "unsigned short"          -> USHRT_MAX
          [] T = "int"                     -> INT_MAX
          [] T = "unsigned int"            -> UINT_MAX)

\* The smallest value of T.
MinOf(T) ==
    IF IsUnsigned(T) THEN Signed(FALSE, Zero)
    ELSE Signed(TRUE, BigAdd(MaxOf(T).mag, One))

CharOf(d) ==
    CASE d = 0 -> "0" [] d = 1 -> "1" [] d = 2 -> "2" [] d = 3 -> "3"
      [] d = 4 -> "4" [] d = 5 -> "5" [] d = 6 -> "6" [] d = 7 -> "7"
      [] d = 8 -> "8" [] d = 9 -> "9"

\* The decimal numeral of a signed number.
Numeral(neg, mag) ==
    (IF neg THEN <<"-">> ELSE <<>>) \o [i \in 1 .. Len(mag) |-> CharOf(mag[i])]

\* The digits of str from position i on.
RECURSIVE DigitsFrom(_, _, _)
DigitsFrom(str, i, acc) ==
    IF i <= Len(str) /\ str[i] \in Digits
    THEN DigitsFrom(str, i + 1, Append(acc, DigitOf(str[i])))
    ELSE acc

\* What strtol and strtoul read from a decimal string: white space, an
\* optional sign, digits.
ParseNumeral(str) ==
    LET i    == SkipSpaces(str, 1)
        neg  == i <= Len(str) /\ str[i] = "-"
        sign == i <= Len(str) /\ str[i] \in {"-", "+"}
        ds   == DigitsFrom(str, IF sign THEN i + 1 ELSE i, <<>>)
    IN  [neg |-> neg, mag |-> IF ds = <<>> THEN Zero ELSE BigNorm(ds)]

\* strtoT<long> = strtol: the value, or LONG_MIN / LONG_MAX out of range.
strtol(str) ==
    LET v == ParseNumeral(str)
        LONG_MIN == BigAdd(LONG_MAX, One)
    IN  IF v.neg
        THEN Signed(TRUE, IF BigLess(LONG_MIN, v.mag) THEN LONG_MIN ELSE v.mag)
        ELSE Signed(FALSE, IF BigLess(LONG_MAX, v.mag) THEN LONG_MAX ELSE v.mag)

\* strtoT<unsigned long> = strtoul: ULONG_MAX out of range, else the
\* value, negated in unsigned long if the string has a minus sign.
strtoul(str) ==
    LET v == ParseNumeral(str)
    IN  IF BigLess(ULONG_MAX, v.mag) THEN Signed(FALSE, ULONG_MAX)
        ELSE IF v.neg /\ v.mag /= Zero
        THEN Signed(FALSE, BigSub(BigAdd(ULONG_MAX, One), v.mag))
        ELSE Signed(FALSE, v.mag)

\* strtoT<T> for T in IntTypes.
strtoT(T, str) ==
    IF IsUnsigned(T)
    THEN LET val == strtoul(str)
         IN  IF SLess(MaxOf(T), val) THEN MaxOf(T) ELSE val
    ELSE LET val  == strtol(str)
             val1 == IF SLess(val, MinOf(T)) THEN MinOf(T) ELSE val
         IN  IF SLess(MaxOf(T), val1) THEN MaxOf(T) ELSE val1

\* The magnitudes around which the numerals are taken.
Anchors == {Zero, SCHAR_MAX, UCHAR_MAX, SHRT_MAX, USHRT_MAX, INT_MAX,
            UINT_MAX, LONG_MAX, ULONG_MAX}

RECURSIVE NatDigits(_)
NatDigits(n) == IF n < 10 THEN <<n>> ELSE Append(NatDigits(n \div 10), n % 10)

\* The magnitudes within MaxOffset of an anchor.
Magnitudes ==
    { BigAdd(a, NatDigits(off)) : a \in Anchors, off \in 0 .. MaxOffset }
    \cup { BigSub(a, NatDigits(off)) : a \in Anchors \ {Zero}, off \in 1 .. MaxOffset }

InitStr ==
    /\ BfsUnused
    /\ DisplayUnused
    /\ ParamsUnused
    /\ TmpUnused
    /\ coo = [nodes |-> 0, edges |-> 0, directed |-> TRUE,
              edge_pairs |-> <<>>, edge_values |-> <<>>]
    /\ FLAG = [HAS_EDGE_VALUES |-> FALSE, HAS_NODE_VALUES |-> FALSE]
    /\ csc = [nodes |-> 0, edges |-> 0]
    /\ cscPhase = "new"
    /\ retval = 0
    /\ coo0 = coo
    /\ lastCall = [op |-> "none", before |-> {}, freed |-> <<>>, fail |-> 0]
    /\ cscOps = 0
    /\ strT \in IntTypes
    /\ \E neg \in BOOLEAN, mag \in Magnitudes : strIn = Numeral(neg, mag)
    /\ strOut = NotReturned

StrToT ==
    /\ ~strOut.done
    /\ LET r == strtoT(strT, strIn)
       IN  strOut' = [done |-> TRUE, neg |-> r.neg, mag |-> r.mag]
    /\ UNCHANGED <<strT, strIn>>
    /\ UNCHANGED notNumVars

NextStr == StrToT

SpecStr == InitStr /\ [][NextStr]_vars

----------------------------------------------------------------------------
(***************************************************************************)
(* strtoT<bool> and isValidString<bool>.  A C string is its sequence of    *)
(* characters; position i of the C string is element i + 1, and the        *)
(* position after the last character holds the terminator.                 *)
(***************************************************************************)
NUL == "NUL"

\* str[i]
At(str, i) == IF i < Len(str) THEN str[i + 1] ELSE NUL

tolower(c) ==
    CASE c = "T" -> "t" [] c = "R" -> "r" [] c = "U" -> "u" [] c = "E" -> "e"
      [] c = "F" -> "f" [] c = "A" -> "a" [] c = "L" -> "l" [] c = "S" -> "s"
      [] c = "X" -> "x" [] c = "Y" -> "y"
      [] OTHER -> c

toupper(c) ==
    CASE c = "t" -> "T" [] c = "r" -> "R" [] c = "u" -> "U" [] c = "e" -> "E"
      [] c = "f" -> "F" [] c = "a" -> "A" [] c = "l" -> "L" [] c = "s" -> "S"
      [] c = "x" -> "X" [] c = "y" -> "Y"
      [] OTHER -> c

\* strtoT<bool>: the value returned and the position left in *str_end.
strtoBool(str) ==
    LET i      == SkipSpaces(str, 1) - 1
        length == Len(str)
    IN  IF /\ i + 5 >= length
           /\ tolower(At(str, i)) = "f" /\ tolower(At(str, i + 1)) = "a"
           /\ tolower(At(str, i + 2)) = "l" /\ tolower(At(str, i + 3)) = "s"
           /\ tolower(At(str, i + 4)) = "e"
        THEN [val |-> FALSE, str_end |-> i + 5]
        ELSE IF /\ i + 4 >= length
                /\ tolower(At(str, i)) = "t" /\ tolower(At(str, i + 1)) = "r"
                /\ tolower(At(str, i + 2)) = "u" /\ tolower(At(str, i + 3)) = "e"
        THEN [val |-> TRUE, str_end |-> i + 4]
        ELSE IF i + 1 >= length /\ (At(str, i) = "0" \/ tolower(At(str, i)) = "f")
        THEN [val |-> FALSE, str_end |-> i + 1]
        ELSE IF i + 1 >= length /\ (At(str, i) = "1" \/ tolower(At(str, i)) = "t")
        THEN [val |-> TRUE, str_end |-> i + 1]
        ELSE [val |-> TRUE, str_end |-> i]

\* isValidString<bool>: *str_end == '\0'.
isValidStringBool(str) == At(str, strtoBool(str).str_end) = NUL

\* The words the strings are made of, in lower case.
BoolWords ==
    { <<>>, <<"t">>, <<"f">>, <<"0">>, <<"1">>, <<"2">>, <<"x">>,
      <<"t", "r">>, <<"1", "0">>, <<"y", "e", "s">>,
      <<"t", "r", "u", "e">>, <<"f", "a", "l", "s">>,
      <<"f", "a", "l", "s", "e">>, <<"t", "r", "u", "e", "e">>,
      <<"f", "a", "l", "s", "e", "e">> }

Suffixes == { <<>>, <<" ">>, <<"x">> }

\* Word w with the letters at the positions in up in upper case.
Cased(w, up) == [k \in 1 .. Len(w) |-> IF k \in up THEN toupper(w[k]) ELSE w[k]]

BoolNotReturned == [done |-> FALSE, val |-> FALSE, valid |-> FALSE]

InitBool ==
    /\ BfsUnused
    /\ DisplayUnused
    /\ ParamsUnused
    /\ TmpUnused
    /\ coo = EmptyCoo
    /\ FLAG = [HAS_EDGE_VALUES |-> FALSE, HAS_NODE_VALUES |-> FALSE]
    /\ csc = [nodes |-> 0, edges |-> 0]
    /\ cscPhase = "new"
    /\ retval = 0
    /\ coo0 = coo
    /\ lastCall = NoCall
    /\ cscOps = 0
    /\ strT = "bool"
    /\ \E spaces \in 0 .. MaxSpaces, w \in BoolWords, suffix \in Suffixes :
          \E up \in SUBSET (1 .. Len(w)) :
              strIn = [k \in 1 .. spaces |-> " "] \o Cased(w, up) \o suffix
    /\ strOut = BoolNotReturned

StrToBool ==
    /\ ~strOut.done
    /\ strOut' = [done  |-> TRUE,
                  val   |-> strtoBool(strIn).val,
                  valid |-> isValidStringBool(strIn)]
    /\ UNCHANGED <<strT, strIn>>
    /\ UNCHANGED notNumVars

NextBool == StrToBool

SpecBool == InitBool /\ [][NextBool]_vars

----------------------------------------------------------------------------
(***************************************************************************)
(* Parameters::Parse_CommandLine, and the typed Set and Get for bool.      *)
(***************************************************************************)
HexDigits == Digits \cup {"a", "b", "c", "d", "e", "f",
                          "A", "B", "C", "D", "E", "F"}

\* The first position from i on that holds no character of set.
RECURSIVE SkipSet(_, _, _)
SkipSet(str, i, set) ==
    IF At(str, i) \in set THEN SkipSet(str, i + 1, set) ELSE i

\* Where strtol(str, &str_end, 0) leaves str_end: after the numeral, which
\* is hexadecimal after 0x, octal after 0 and decimal otherwise, or at the
\* start of str when there is no numeral.
StrtolEnd(str) ==
    LET i == SkipSpaces(str, 1) - 1
        j == IF At(str, i) \in {"-", "+"} THEN i + 1 ELSE i
    IN  IF /\ At(str, j) = "0"
           /\ At(str, j + 1) \in {"x", "X"}
           /\ At(str, j + 2) \in HexDigits
        THEN SkipSet(str, j + 2, HexDigits)
        ELSE IF At(str, j) = "0"
        THEN SkipSet(str, j, {"0", "1", "2", "3", "4", "5", "6", "7"})
        ELSE IF At(str, j) \in Digits
        THEN SkipSet(str, j, Digits)
        ELSE 0

\* isValidString(str, t_info) for the types the parameters are declared
\* with: int, bool and std::string.
isValidString(str, type) ==
    CASE type = "int"  -> At(str, StrtolEnd(str)) = NUL
      [] type = "bool" -> isValidStringBool(str)
      [] OTHER         -> TRUE

\* long_options[i].has_arg = (flag & 0x07) / 2
HasArg(flag) ==
    CASE HasFlag(flag, "OPTIONAL_ARGUMENT") -> 2
      [] HasFlag(flag, "REQUIRED_ARGUMENT") -> 1
      [] OTHER -> 0

\* getopt_long_only on one occurrence [name, has, arg] of the command
\* line: '?' for a name that is not an option, for an argument given to
\* an option that takes none, and for a missing required argument.
GetOpt(pm, occ) ==
    IF ~Declared(pm, occ.name) THEN "?"
    ELSE IF HasArg(pm[occ.name].flag) = 0 /\ occ.has THEN "?"
    ELSE IF HasArg(pm[occ.name].flag) = 1 /\ ~occ.has THEN "?"
    ELSE "option"

Comma == <<",">>

HasComma(str) == \E k \in 1 .. Len(str) : str[k] = ","

STrue == <<"t", "r", "u", "e">>

\* The argument of an occurrence: optarg, or "" when it is NULL, and
\* "true" for a bool parameter given without one.
Argument(p_item, occ) ==
    LET optarg == IF occ.has THEN occ.arg ELSE <<>>
    IN  IF p_item.value_type_info = "bool" /\ optarg = <<>> THEN STrue ELSE optarg

Combined_always(p_item, argument) ==
    IF ~p_item.use_default THEN p_item.value \o Comma \o argument ELSE argument

\* The MULTI_VALUE branch: a later argument goes behind the stored value.
Combined(p_item, argument) ==
    IF HasFlag(p_item.flag, "MULTI_VALUE") /\ ~p_item.use_default
    THEN p_item.value \o Comma \o argument
    ELSE argument

Rejected_never(p_item, argument) == FALSE

\* The two error exits of the option loop: a comma in the argument of a
\* SINGLE_VALUE parameter, and a string that is not valid for the type.
Rejected(p_item, argument) ==
    \/ HasFlag(p_item.flag, "SINGLE_VALUE") /\ HasComma(argument)
    \/ ~isValidString(Combined(p_item, argument), p_item.value_type_info)

\* The body of the option loop for one occurrence: the registry after it
\* and whether Set was called.
ParseOption(pm, occ) ==
    IF GetOpt(pm, occ) = "?" THEN [p_map |-> pm, set |-> FALSE]
    ELSE
    LET p_item   == pm[occ.name]
        argument == Argument(p_item, occ)
    IN  IF Rejected(p_item, argument)
        THEN [p_map |-> pm, set |-> FALSE]
        ELSE [p_map |-> Set(pm, occ.name, Combined(p_item, argument)).p_map,
              set |-> TRUE]

\* Parameters::Parse_CommandLine from occurrence k of argv on; applied
\* tells for each occurrence whether Set was called for it.
RECURSIVE Parse_CommandLine(_, _, _, _)
Parse_CommandLine(pm, argv, k, applied) ==
    IF k > Len(argv)
    THEN [retval |-> cudaSuccess, p_map |-> pm, applied |-> applied]
    ELSE LET r == ParseOption(pm, argv[k])
         IN  Parse_CommandLine(r.p_map, argv, k + 1, Append(applied, r.set))

\* std::ostringstream << value for a bool.
OStreamBool(value) == IF value THEN <<"1">> ELSE <<"0">>

\* template Parameters::Set(name, T value), for T = bool.
SetBool(pm, name, value) == Set(pm, name, OStreamBool(value))

\* std::istringstream(str) >> value for a bool: read as a number, 0 is
\* false and 1 is true; nothing to read leaves value as it was, no
\* numeral gives false and any other number true.
IStreamBool(str, value0) ==
    IF SkipSpaces(str, 1) > Len(str) THEN value0
    ELSE IStreamInt(str, 0) /= 0

\* template Parameters::Get(name, T &value), for T = bool.
GetBool(pm, name, value0) ==
    LET g == GetString(pm, name, <<>>)
    IN  IF g.retval /= cudaSuccess
        THEN [retval |-> g.retval, value |-> value0]
        ELSE [retval |-> cudaSuccess, value |-> IStreamBool(g.value, value0)]

\* The declarations of the parsed parameters.
ParseDeclarations ==
    { [flag |-> {"REQUIRED_ARGUMENT", "SINGLE_VALUE", "REQUIRED_PARAMETER"},
       type |-> "int", default_value |-> <<>>, description |-> "source vertex"],
      [flag |-> {"OPTIONAL_ARGUMENT", "MULTI_VALUE", "OPTIONAL_PARAMETER"},
       type |-> "int", default_value |-> <<"0">>, description |-> "devices"],
      [flag |-> {"REQUIRED_ARGUMENT", "MULTI_VALUE", "OPTIONAL_PARAMETER"},
       type |-> "std::string", default_value |-> <<>>, description |-> "graph files"],
      [flag |-> {"NO_ARGUMENT", "OPTIONAL_PARAMETER"}, type |-> "bool",
       default_value |-> <<"f", "a", "l", "s", "e">>, description |-> "quick mode"] }

\* The arguments on the command line.
ArgValues == { <<"2">>, <<"7">>, <<"1", ",", "2">>, <<"x">> }

Occurrences ==
    { [name |-> n, has |-> FALSE, arg |-> <<>>] : n \in ParamNames }
    \cup { [name |-> n, has |-> TRUE, arg |-> a] : n \in ParamNames, a \in ArgValues }

\* The registry after the declaration of both names and a Set of those
\* in preset.
DeclaredRegistry(d1, d2, preset) ==
    LET u1 == Use([n \in {} |-> 0], "src", d1.flag, d1.default_value,
                  d1.description, d1.type, "app.cu", 1).p_map
        u2 == Use(u1, "quick", d2.flag, d2.default_value,
                  d2.description, d2.type, "app.cu", 2).p_map
        s1 == IF "src" \in preset THEN Set(u2, "src", <<"7">>).p_map ELSE u2
    IN  IF "quick" \in preset THEN Set(s1, "quick", <<"7">>).p_map ELSE s1

InitParse ==
    /\ BfsUnused
    /\ DisplayUnused
    /\ StrUnused
    /\ TmpUnused
    /\ coo = EmptyCoo
    /\ FLAG = [HAS_EDGE_VALUES |-> FALSE, HAS_NODE_VALUES |-> FALSE]
    /\ csc = [nodes |-> 0, edges |-> 0]
    /\ cscPhase = "new"
    /\ retval = 0
    /\ coo0 = coo
    /\ lastCall = NoCall
    /\ cscOps = 0
    /\ \E d1 \in ParseDeclarations, d2 \in ParseDeclarations,
          preset \in SUBSET ParamNames :
          /\ p_map = DeclaredRegistry(d1, d2, preset)
          /\ lastSet = [n \in ParamNames |->
                          IF n \in preset
                          THEN [set |-> TRUE, value |-> <<"7">>, by |-> "Set"]
                          ELSE NeverSet[n]]
    /\ lastParam = NoParamCall

\* The names for which occurrence k is the last one Set was called for.
LastApplied(argv, applied, n) ==
    { k \in 1 .. Len(argv) :
        /\ argv[k].name = n /\ applied[k]
        /\ \A j \in k + 1 .. Len(argv) : ~(argv[j].name = n /\ applied[j]) }

ParamParse ==
    /\ lastParam.op = "none"
    /\ \E len \in 1 .. MaxArgs : \E argv \in [1 .. len -> Occurrences] :
          LET r == Parse_CommandLine(p_map, argv, 1, <<>>)
          IN  /\ p_map' = r.p_map
              /\ lastParam' = [NoParamCall EXCEPT
                    !.op = "Parse", !.status = r.retval, !.reports = TRUE,
                    !.argv = argv, !.before = p_map]
              /\ lastSet' = [n \in ParamNames |->
                    IF LastApplied(argv, r.applied, n) = {} THEN lastSet[n]
                    ELSE [set |-> TRUE, value |-> r.p_map[n].value,
                          by |-> IF \E k \in LastApplied(argv, r.applied, n) :
                                       ~argv[k].has
                                 THEN "ParseNoArgument" ELSE "Parse"]]
    /\ UNCHANGED notParVars

ParamSetBool ==
    /\ lastParam.op = "none"
    /\ \E name \in ParamNames, value \in BOOLEAN :
          LET r == SetBool(p_map, name, value)
          IN  /\ p_map' = r.p_map
              /\ lastParam' = [NoParamCall EXCEPT
                    !.op = "SetBool", !.name = name, !.status = r.retval,
                    !.reports = TRUE, !.had = Declared(p_map, name)]
              /\ lastSet' = [lastSet EXCEPT
                    ![name] = [set |-> TRUE, value |-> OStreamBool(value),
                               by |-> IF value THEN "SetBoolTrue"
                                      ELSE "SetBoolFalse"]]
    /\ UNCHANGED notParVars

ParamGetBool ==
    /\ lastParam.op \in {"Parse", "SetBool"}
    /\ \E name \in ParamNames, value0 \in BOOLEAN :
          LET r == GetBool(p_map, name, value0)
          IN  lastParam' = [NoParamCall EXCEPT
                    !.op = "GetBool", !.name = name, !.status = r.retval,
                    !.reports = TRUE, !.had = Declared(p_map, name),
                    !.out0 = value0, !.out = r.value]
    /\ UNCHANGED <<p_map, lastSet>>
    /\ UNCHANGED notParVars

NextParse ==
    \/ ParamParse
    \/ ParamSetBool
    \/ ParamGetBool

SpecParse == InitParse /\ [][NextParse]_vars

----------------------------------------------------------------------------
(***************************************************************************)
(* Properties of the traversal.                                            *)
(***************************************************************************)
WorkerIds == 1 .. Len(workers)

\* The slot CondEdge claims for destination d, and its invalid value.
ClaimSlot(ps, d) == IF MARK_PREDECESSORS THEN ps.d_preds[d] ELSE ps.d_labels[d]

ClaimInvalid ==
    IF MARK_PREDECESSORS THEN INVALID_PREDECESSOR_ID ELSE INVALID_NODE_VALUE

\* The value worker i's CondEdge stores when it wins.
ClaimValue(i) == IF MARK_PREDECESSORS THEN workers[i].s ELSE workers[i].s + 1

Targeting(d) == { i \in WorkerIds : workers[i].d = d }

Evaluated(d) == { i \in Targeting(d) : workers[i].pc /= "cond" }

Winners(d) == { i \in Evaluated(d) : workers[i].ret }

\* d's slot was invalid when the step began and two or more edges of the
\* step lead to d.
Contended(d) ==
    /\ ClaimSlot(p0, d) = ClaimInvalid
    /\ Cardinality(Targeting(d)) >= 2

\* Worker i's CondEdge runs in this step of the model.
CondEdgeReturns(i) ==
    /\ phase = "Advance"
    /\ phase' = "Advance"
    /\ workers[i].pc = "cond"
    /\ workers'[i].pc /= "cond"

SingleWinnerState ==
    phase = "Advance" =>
        \A d \in Vertices(graph) :
            (Contended(d) /\ Evaluated(d) /= {}) =>
                \E i \in Winners(d) :
                    /\ Winners(d) = {i}
                    /\ ClaimSlot(p, d) = ClaimValue(i)

LoserChangesNothing ==
    \A i \in WorkerIds :
        (CondEdgeReturns(i) /\ Contended(workers[i].d) /\ ~workers'[i].ret)
            => p' = p

\* C1: in one Advance step, for every destination whose claim slot was
\* invalid at the start of the step and that two or more edges of the step
\* lead to, as soon as one CondEdge on it has run there is exactly one
\* CondEdge that returned true, the slot holds the value that winner wrote,
\* and a CondEdge that returns false changes nothing in the DataSlice.
C1_SingleWinner == [](SingleWinnerState) /\ [][LoserChangesNothing]_vars

C1_Witness ==
    /\ phase = "Advance"
    /\ AllWorkersDone
    /\ \E d \in Vertices(graph) :
          /\ Contended(d)
          /\ \E i, j \in Targeting(d) : workers[i].ret /\ ~workers[j].ret

Labels4(a, b, c, d) == (0 :> a) @@ (1 :> b) @@ (2 :> c) @@ (3 :> d)

\* The traversal of the Diamond from vertex 0 has run until its frontier
\* was empty.
DiamondFinished ==
    /\ graph = Diamond
    /\ src = 0
    /\ done
    /\ frontier = <<>>

\* C2: with predecessor tracking, every traversal of the graph
\* (0->1),(0->2),(1->3),(2->3) from vertex 0 that ends with an empty
\* frontier has labels = [0,1,1,2], predecessors[1] = predecessors[2] = 0
\* and predecessors[3] one of 1 and 2.
C2_DiamondWithPreds ==
    (DiamondFinished /\ MARK_PREDECESSORS) =>
        /\ p.d_labels = Labels4(0, 1, 1, 2)
        /\ p.d_preds[1] = 0
        /\ p.d_preds[2] = 0
        /\ p.d_preds[3] \in {1, 2}

C2_Witness ==
    /\ DiamondFinished
    /\ MARK_PREDECESSORS
    /\ p.d_preds[3] = 2

\* C3: without predecessor tracking, every traversal of the graph
\* (0->1),(0->2),(1->3),(2->3) from vertex 0 that ends with an empty
\* frontier has labels = [0,1,1,2].
C3_DiamondWithoutPreds ==
    (DiamondFinished /\ ~MARK_PREDECESSORS) =>
        p.d_labels = Labels4(0, 1, 1, 2)

CondEdgeSetsDepth ==
    \A i \in WorkerIds :
        (/\ CondEdgeReturns(i)
         /\ ~MARK_PREDECESSORS
         /\ p.d_labels[workers[i].d] = INVALID_NODE_VALUE)
            => /\ workers'[i].ret
               /\ p'.d_labels[workers[i].d] = p.d_labels[workers[i].s] + 1

\* C4: without predecessor tracking, a CondEdge(s, d) that finds labels[d]
\* invalid sets labels[d] to labels[s] + 1 and returns true.
C4_CondEdgeSetsDepth == [][CondEdgeSetsDepth]_vars

SuperstepBoundary == phase \in {"Idle", "Loop"}

\* C5: with predecessor tracking, at every superstep boundary every vertex
\* with a valid predecessor has the label of its predecessor plus one.
C5_LabelIsPredLabelPlusOne ==
    (MARK_PREDECESSORS /\ SuperstepBoundary) =>
        \A d \in Vertices(graph) :
            p.d_preds[d] /= INVALID_PREDECESSOR_ID =>
                p.d_labels[d] = p.d_labels[p.d_preds[d]] + 1

\* The DataSlice slots worker i has written with a plain store so far in
\* this step, and the slots it has accessed in any way.
PlainStores(i) ==
    IF MARK_PREDECESSORS /\ workers[i].ret /\ workers[i].pc = "done"
    THEN {<<"d_labels", workers[i].d>>} ELSE {}

Accesses(i) ==
    (IF workers[i].pc /= "cond"
     THEN {<<IF MARK_PREDECESSORS THEN "d_preds" ELSE "d_labels", workers[i].d>>}
     ELSE {})
    \cup (IF MARK_PREDECESSORS /\ workers[i].ret /\ workers[i].pc \in {"store", "done"}
          THEN {<<"d_labels", workers[i].s>>} ELSE {})
    \cup PlainStores(i)

\* C6: within one Advance step no worker makes a plain store to a labels
\* or predecessors slot that another worker of the step reads or writes.
C6_NoPlainStoreToSharedSlot ==
    phase = "Advance" =>
        \A i, j \in WorkerIds :
            i /= j => PlainStores(i) \cap Accesses(j) = {}

\* C7: every traversal returns to Idle; it ends only when the produced
\* frontier is empty or the number of supersteps has reached the maximum,
\* it ends as soon as one of the two holds, and no Advance or Filter is
\* issued afterwards.
C7_Terminates ==
    /\ <>(done /\ phase = "Idle")
    /\ [](done => (frontier = <<>> \/ iter >= max_iter))
    /\ [][(phase = "Loop" /\ (frontier = <<>> \/ iter >= max_iter))
             => (phase' = "Idle" /\ done')]_vars
    /\ [][done => (done' /\ phase' = "Idle" /\ iter' = iter)]_vars

C7_Witness ==
    /\ done
    /\ phase = "Idle"
    /\ frontier /= <<>>
    /\ iter = max_iter
    /\ iter > 1

NoOutEdges == Neighbors(graph, src) = <<>>

\* C8: a traversal whose source has no outgoing edge terminates, having
\* produced exactly one (empty) frontier, with labels[source] = 0, every
\* other label invalid and every predecessor invalid.
C8_EmptyFrontierTermination ==
    /\ [](NoOutEdges => <>done)
    /\ []((NoOutEdges /\ done) =>
            /\ iter = 1
            /\ emptied = 1
            /\ p.d_labels = [v \in Vertices(graph) |->
                                IF v = src THEN 0 ELSE INVALID_NODE_VALUE]
            /\ p.d_preds = [v \in Vertices(graph) |-> INVALID_PREDECESSOR_ID])

C8_Witness ==
    /\ NoOutEdges
    /\ done
    /\ graph.edges /= {}

NotSentinel(v) == v /= INVALID_NODE_ID

\* C9: Filter keeps exactly the entries of its input that are not the
\* invalid-id sentinel, in order; applied once or twice to its own output
\* it returns that output; and it leaves labels and predecessors unchanged.
C9_Filter ==
    /\ []((phase = "Loop" /\ iter > 0) =>
            /\ frontier = SelectSeq(out, NotSentinel)
            /\ Filter(frontier, p, 1) = [frontier |-> frontier, p |-> p]
            /\ Filter(Filter(frontier, p, 1).frontier, p, 1).frontier = frontier)
    /\ [][(phase = "Advance" /\ phase' = "Loop") => p' = p]_vars

C9_Witness ==
    /\ phase = "Loop"
    /\ iter > 0
    /\ Len(frontier) >= 2
    /\ \E k \in 1 .. Len(out) : out[k] = INVALID_NODE_ID

----------------------------------------------------------------------------
(***************************************************************************)
(* Properties of the graph store.                                          *)
(***************************************************************************)
Built == cscPhase = "built" /\ retval = cudaSuccess

\* C10: after a successful FromCoo, column_offsets is non-decreasing over
\* [0, nodes], starts at 0 and ends at edges.
C10_OffsetMonotonicity ==
    Built =>
        /\ \A k \in 0 .. csc.nodes - 1 :
              csc.column_offsets.data[k] <= csc.column_offsets.data[k + 1]
        /\ csc.column_offsets.data[0] = 0
        /\ csc.column_offsets.data[csc.nodes] = csc.edges

\* A successful build from an edge list that was not in column order, with
\* a vertex that is no edge's destination.
C10_Witness ==
    /\ Built
    /\ csc.edges >= 2
    /\ \E k \in 0 .. csc.nodes - 1 :
          csc.column_offsets.data[k] = csc.column_offsets.data[k + 1]
    /\ \E i, j \in 0 .. csc.edges - 1 :
          /\ coo.edge_pairs[i].y < coo.edge_pairs[j].y
          /\ coo.edge_values[i] > coo.edge_values[j]

\* The number of edges of the edge list cg whose destination is v.
InDegree(cg, v) ==
    Cardinality({ i \in 0 .. cg.edges - 1 : cg.edge_pairs[i].y = v })

\* C11: after a successful FromCoo, column_offsets[v+1] - column_offsets[v]
\* is the number of edges of the given edge list whose destination is v,
\* for every vertex v; a vertex that is no edge's destination has an empty
\* range.
C11_DegreeCorrectness ==
    Built =>
        \A v \in 0 .. csc.nodes - 1 :
            csc.column_offsets.data[v + 1] - csc.column_offsets.data[v]
                = InDegree(coo0, v)

\* A successful build in which the last vertex and a vertex below a
\* referenced one are no edge's destination, and one vertex has two edges.
C11_Witness ==
    /\ Built
    /\ csc.nodes = 3
    /\ InDegree(coo0, 1) = 2
    /\ csc.column_offsets.data[0] = csc.column_offsets.data[1]
    /\ csc.column_offsets.data[2] = csc.column_offsets.data[3]

\* The (source, destination, weight) tuple of edge i of an edge list, and
\* of the edge at position e of column c of the Csc.
CooTuple(cg, i) ==
    <<cg.edge_pairs[i].x, cg.edge_pairs[i].y,
      IF FLAG.HAS_EDGE_VALUES THEN cg.edge_values[i] ELSE 0>>

CscTuple(e, c) ==
    <<csc.row_indices.data[e], c,
      IF FLAG.HAS_EDGE_VALUES THEN csc.edge_values.data[e] ELSE 0>>

CooCount(cg, t) ==
    Cardinality({ i \in 0 .. cg.edges - 1 : CooTuple(cg, i) = t })

\* The expansion of the Csc: the positions of every column.
CscPositions ==
    { ec \in (0 .. csc.edges - 1) \X (0 .. csc.nodes - 1) :
        /\ csc.column_offsets.data[ec[2]] <= ec[1]
        /\ ec[1] < csc.column_offsets.data[ec[2] + 1] }

CscCount(t) ==
    Cardinality({ ec \in CscPositions : CscTuple(ec[1], ec[2]) = t })

AllTuples ==
    { CooTuple(coo0, i) : i \in 0 .. coo0.edges - 1 }
        \cup { CscTuple(ec[1], ec[2]) : ec \in CscPositions }
        \cup { CooTuple(coo, i) : i \in 0 .. coo.edges - 1 }

\* C12: after a successful FromCoo, the expansion of the Csc is the same
\* multiset of (source, destination, weight) tuples as the edge list that
\* was given, and the edge list itself still holds that multiset.
C12_RoundTrip ==
    Built =>
        \A t \in AllTuples :
            /\ CscCount(t) = CooCount(coo0, t)
            /\ CooCount(coo, t) = CooCount(coo0, t)

\* A successful build with edge values from an edge list that FromCoo had
\* to reorder.
C12_Witness ==
    /\ Built
    /\ FLAG.HAS_EDGE_VALUES
    /\ csc.edges >= 2
    /\ coo /= coo0
    /\ coo.edge_pairs[0].x /= coo.edge_pairs[0].y

\* The call of FromCoo that failed: lastCall.fail unless that call is one on
\* a NullArray, which cannot fail.
FailingCall ==
    IF \/ (lastCall.fail = 4 /\ ~FLAG.HAS_NODE_VALUES)
       \/ (lastCall.fail \in {5, 8} /\ ~FLAG.HAS_EDGE_VALUES)
    THEN 0 ELSE lastCall.fail

Unwritten(arr) == \A i \in DOMAIN arr.data : arr.data[i] = Uninit

\* C13: a FromCoo in which a call fails returns the error of that call, has
\* run every call before it and none after it; in particular Allocate has
\* allocated the arrays before the failing one and none after it.
C13_FirstError ==
    (cscPhase = "built" /\ FailingCall /= 0) =>
        LET k == FailingCall IN
        /\ retval = ErrorOf(k)
        /\ csc.column_offsets.allocated = (k > 2)
        /\ csc.row_indices.allocated = (k > 3)
        /\ csc.node_values.allocated = (k > 4 /\ FLAG.HAS_NODE_VALUES)
        /\ csc.edge_values.allocated = (k > 5 /\ FLAG.HAS_EDGE_VALUES)
        /\ (k <= 6 => coo = coo0)
        /\ (k <= 7 => Unwritten(csc.row_indices))
        /\ (k <= 8 => Unwritten(csc.edge_values))
        /\ Unwritten(csc.column_offsets)

\* Allocate failed at row_indices with column_offsets already allocated.
C13_Witness ==
    /\ cscPhase = "built"
    /\ FailingCall = 3
    /\ csc.column_offsets.allocated
    /\ coo0.edges = 2
    /\ coo0.edge_pairs[0].y > coo0.edge_pairs[1].y

\* How often array a occurs in the list of freed arrays.
TimesFreed(a) ==
    Cardinality({ k \in 1 .. Len(lastCall.freed) : lastCall.freed[k] = a })

\* What a first Allocate(nodes, edges) makes of array a.
FirstAllocation(a) ==
    CASE a = "column_offsets" -> Allocated(coo.nodes + 1)
      [] a = "row_indices"    -> Allocated(coo.edges)
      [] a = "node_values"    -> IF FLAG.HAS_NODE_VALUES
                                 THEN Allocated(coo.nodes) ELSE Released
      [] a = "edge_values"    -> IF FLAG.HAS_EDGE_VALUES
                                 THEN Allocated(coo.edges) ELSE Released

ShownDegree(k) ==
    csc.column_offsets.data[k] - csc.column_offsets.data[k - 1]

\* C15: Display prints, for a vertex with more than 40 neighbors, exactly
\* 40 neighbor entries and then the truncation marker, and for a vertex
\* with at most 40 neighbors all of them and no marker.
C15_DisplayBound ==
    cscPhase = "shown" =>
        \A k \in 1 .. Len(shown.lines) :
            IF ShownDegree(k) > DisplayCap
            THEN /\ Len(shown.lines[k].entries) = DisplayCap
                 /\ shown.lines[k].marker
            ELSE /\ Len(shown.lines[k].entries) = ShownDegree(k)
                 /\ ~shown.lines[k].marker

\* What the code does: one entry more than the cap before the marker.
DisplayPrintsCapPlusOne ==
    cscPhase = "shown" =>
        \A k \in 1 .. Len(shown.lines) :
            IF ShownDegree(k) > DisplayCap
            THEN /\ Len(shown.lines[k].entries) = DisplayCap + 1
                 /\ shown.lines[k].marker
            ELSE /\ Len(shown.lines[k].entries) = ShownDegree(k)
                 /\ ~shown.lines[k].marker

Min(a, b) == IF a < b THEN a ELSE b

DisplayFrame ==
    (cscPhase = "built" /\ cscPhase' = "shown") =>
        /\ csc' = csc
        /\ FLAG' = FLAG
        /\ Len(shown'.lines) = Min(shown'.nodes_to_show, csc.nodes)
        /\ \A k \in 1 .. Len(shown'.lines) : shown'.lines[k].node = k - 1

\* C16: Display leaves nodes, edges, directed and the four arrays as they
\* were and prints min(nodes_to_show, nodes) vertex lines, those of the
\* first vertices.
C16_DisplayFrame == [][DisplayFrame]_vars

\* Display asked for fewer vertices than the graph has.
C16_Witness ==
    /\ cscPhase = "shown"
    /\ csc.nodes = 2
    /\ csc.edges > 0
    /\ shown.nodes_to_show = 1
    /\ Len(shown.lines) = 1

UseDuplicateRejected ==
    (/\ lastParam'.op = "Use"
     /\ lastParam'.had
     /\ ~lastParam'.sameSite)
        => /\ lastParam'.status /= cudaSuccess
           /\ p_map' = p_map

\* C17: Use of a name that is already declared from another call site
\* (another file name or line number) returns an error status and leaves
\* every entry of the registry, the existing one included, as it was.
C17_DuplicateDefinition == [][UseDuplicateRejected]_vars

\* A duplicate declaration, other than the one in place, of a name whose
\* value has been set meanwhile.
C17_Witness ==
    /\ lastParam.op = "Use"
    /\ lastParam.had
    /\ ~lastParam.sameSite
    /\ lastParam.status = cudaErrorInvalidSymbol
    /\ ~p_map[lastParam.name].use_default
    /\ p_map[lastParam.name].value = <<"2">>

UndeclaredReported ==
    (/\ lastParam'.op \in {"Set", "GetString", "GetTyped", "GetValue"}
     /\ ~lastParam'.had)
        => /\ lastParam'.reports
           /\ lastParam'.status /= cudaSuccess
           /\ p_map' = p_map
           /\ lastParam'.out = lastParam'.out0

\* C18: Set and every Get of a name that was never declared return a
\* status to the caller, that status is an error, the registry is left as
\* it was and the caller's output value is left as it was.
C18_UndeclaredReported == [][UndeclaredReported]_vars

\* The required parameters for which no value was supplied.
MissingRequired ==
    { n \in DOMAIN p_map : /\ HasFlag(p_map[n].flag, "REQUIRED_PARAMETER")
                           /\ p_map[n].use_default }

\* C19: Check_Required reports exactly the required parameters for which
\* no value was supplied, and its returned status is an error exactly when
\* there is one.
C19_CheckRequired ==
    lastParam.op = "Check_Required" =>
        /\ lastParam.printed = MissingRequired
        /\ (lastParam.status /= cudaSuccess) <=> (MissingRequired /= {})

\* What the code gives instead: the names whose value is the empty string
\* on the error stream, and success in every case.
CheckRequiredAlwaysSucceeds ==
    lastParam.op = "Check_Required" =>
        /\ lastParam.status = cudaSuccess
        /\ lastParam.printed =
              { n \in DOMAIN p_map :
                  /\ HasFlag(p_map[n].flag, "REQUIRED_PARAMETER")
                  /\ p_map[n].value = <<>> }

\* The number the numeral given to strtoT denotes.
ValueOfInput == LET v == ParseNumeral(strIn) IN Signed(v.neg, v.mag)

\* The value of T nearest to v.
Saturated(T, v) ==
    IF SLess(v, MinOf(T)) THEN MinOf(T)
    ELSE IF SLess(MaxOf(T), v) THEN MaxOf(T)
    ELSE v

Returned == Signed(strOut.neg, strOut.mag)

\* C20: for each of the seven integer types T, strtoT<T> of a numeral
\* returns the numeral's value if T can hold it, max(T) if it is above
\* T's range and min(T) (0 for the unsigned types) if it is below.
C20_SaturatingParse ==
    strOut.done => Returned = Saturated(strT, ValueOfInput)

\* What the code gives: saturation for the signed types and for numerals
\* without a minus sign.
SaturatesUnlessUnsignedNegative ==
    (strOut.done /\ ~(IsUnsigned(strT) /\ ValueOfInput.neg))
        => Returned = Saturated(strT, ValueOfInput)

\* strtoT<unsigned char>("-18446744073709551615") = 1.
WrappedAround ==
    /\ strOut.done
    /\ strT = "unsigned char"
    /\ strIn = Numeral(TRUE, ULONG_MAX)
    /\ Returned = Signed(FALSE, One)

AdmittedAtMostOnce == \A v \in Vertices(graph) : admitted[v] <= 1

ValidLabelsKept ==
    \A v \in Vertices(graph) :
        p.d_labels[v] /= INVALID_NODE_VALUE => p'.d_labels[v] = p.d_labels[v]

SourceLabelZero == (phase /= "Idle" \/ done) => p.d_labels[src] = 0

\* C21: in both modes, for every graph and interleaving, no vertex enters
\* an output frontier more than once, no label that is valid is written
\* again, and from the seeding on labels[source] is 0.
C21_AdmittedOnceLabelsKept ==
    /\ [](AdmittedAtMostOnce /\ SourceLabelZero)
    /\ [][ValidLabelsKept]_vars

\* What holds: one admission per vertex in both modes, and labels written
\* once when predecessors are not tracked.
AdmittedOnceAndLabelsKeptWithoutPreds ==
    /\ [](AdmittedAtMostOnce /\ (~MARK_PREDECESSORS => SourceLabelZero))
    /\ [][~MARK_PREDECESSORS => ValidLabelsKept]_vars

\* C22: whenever FromCsr has returned, with success or with the error of
\* the expansion or of FromCoo, its temporary edge-list graph holds no
\* storage.
C22_TemporaryReleased ==
    lastCall.op = "FromCsr" => ~tmp.allocated

\* What the code gives: the temporary is released exactly when FromCsr
\* succeeds; after a failure of FromCoo it is still allocated.
TemporaryReleasedOnSuccessOnly ==
    lastCall.op = "FromCsr" =>
        /\ (retval = cudaSuccess) => (~tmp.allocated /\ tmp.releases = 1)
        /\ (retval /= cudaSuccess) => tmp.releases = 0
        /\ (retval /= cudaSuccess /\ lastCall.fail /= 10) => tmp.allocated

SameSiteUse ==
    /\ lastParam'.op = "Use"
    /\ lastParam'.had
    /\ lastParam'.sameSite
    /\ lastParam'.sameArgs

SameSiteUseIdempotent ==
    SameSiteUse => /\ lastParam'.status = cudaSuccess
                   /\ p_map' = p_map

\* C23: Use repeated with the same name, arguments, file name and line
\* number succeeds and leaves the registry as it was, a value and
\* use_default changed in between included.
C23_SameSiteIdempotent == [][SameSiteUseIdempotent]_vars

SameSiteUseResets ==
    SameSiteUse =>
        /\ lastParam'.status = cudaSuccess
        /\ p_map' = [p_map EXCEPT
              ![lastParam'.name].value = p_map[lastParam'.name].default_value,
              ![lastParam'.name].use_default = TRUE]

\* What the code gives: the repeated Use stores a fresh item, so the value
\* goes back to the default and use_default to true.
SameSiteUseResetsValue == [][SameSiteUseResets]_vars

\* The value a read of a declared name is to give.
LastSetOrDefault(name) ==
    IF lastSet[name].set THEN lastSet[name].value
    ELSE p_map[name].default_value

GetGivesLastSet ==
    (lastParam.op = "GetString" /\ lastParam.had) =>
        /\ lastParam.status = cudaSuccess
        /\ lastParam.out = LastSetOrDefault(lastParam.name)

SetTouchesOneName ==
    lastParam'.op = "Set" =>
        \A n \in DOMAIN p_map :
            n /= lastParam'.name => (n \in DOMAIN p_map' /\ p_map'[n] = p_map[n])

GetKeepsRegistry ==
    lastParam'.op \in {"GetString", "GetTyped", "GetValue"} => p_map' = p_map

\* C24: Get of a declared name gives the declared default until the first
\* successful Set of that name and the value of the most recent successful
\* Set afterwards, whatever Use, Set and Get calls came in between; a Set
\* changes no other name and a Get changes nothing.
C24_SetGetRoundTrip ==
    /\ []GetGivesLastSet
    /\ [][SetTouchesOneName /\ GetKeepsRegistry]_vars

\* What the code gives: Get returns the stored value, and Set and Get keep
\* to their frame.
GetGivesStoredValue ==
    /\ []((lastParam.op = "GetString" /\ lastParam.had) =>
             lastParam.out = p_map[lastParam.name].value)
    /\ [][SetTouchesOneName /\ GetKeepsRegistry]_vars

\* str without its leading white space, in lower case.
RECURSIVE Stripped(_)
Stripped(str) ==
    IF str /= <<>> /\ Head(str) = " " THEN Stripped(Tail(str))
    ELSE [k \in 1 .. Len(str) |-> tolower(str[k])]

TrueStrings == { <<"t", "r", "u", "e">>, <<"t">>, <<"1">> }

FalseStrings == { <<"f", "a", "l", "s", "e">>, <<"f">>, <<"0">> }

\* C29: isValidString<bool>(str) is true exactly when str, without its
\* leading white space and in lower case, is one of true, false, t, f, 1,
\* 0; strtoT<bool> then gives false for false, f, 0 and true for true, t,
\* 1; the empty string and a string of white space are invalid.
C29_BoolStrings ==
    strOut.done =>
        /\ strOut.valid <=> (Stripped(strIn) \in TrueStrings \cup FalseStrings)
        /\ Stripped(strIn) \in TrueStrings => strOut.val
        /\ Stripped(strIn) \in FalseStrings => ~strOut.val

\* What the code gives: as claimed, except that a string with nothing
\* after its leading white space is valid too.
BoolStringsOrEmpty ==
    strOut.done =>
        /\ strOut.valid <=>
              (Stripped(strIn) \in TrueStrings \cup FalseStrings \cup {<<>>})
        /\ Stripped(strIn) \in TrueStrings => strOut.val
        /\ Stripped(strIn) \in FalseStrings => ~strOut.val

\* The positions of argv that name n.
OccurrencesOf(argv, n) == { k \in 1 .. Len(argv) : argv[k].name = n }

LastOf(positions) == CHOOSE k \in positions : \A j \in positions : j <= k

\* An occurrence getopt hands to the option loop with an argument of its
\* own that is valid for the declared type and, for SINGLE_VALUE, has no
\* comma.
ValidOccurrence(pm, occ) ==
    /\ GetOpt(pm, occ) = "option"
    /\ occ.has
    /\ isValidString(occ.arg, pm[occ.name].value_type_info)
    /\ HasFlag(pm[occ.name].flag, "SINGLE_VALUE") => ~HasComma(occ.arg)

RepeatedValid(n, flag) ==
    /\ lastParam.op = "Parse"
    /\ HasFlag(p_map[n].flag, flag)
    /\ Cardinality(OccurrencesOf(lastParam.argv, n)) >= 2
    /\ \A k \in OccurrencesOf(lastParam.argv, n) :
          ValidOccurrence(lastParam.before, lastParam.argv[k])

\* C25: after Parse_CommandLine, a SINGLE_VALUE parameter given more than
\* once with valid arguments holds the argument of its last occurrence
\* only, and use_default is false.
C25_LastOccurrenceOnly ==
    \A n \in ParamNames :
        RepeatedValid(n, "SINGLE_VALUE") =>
            /\ p_map[n].value =
                   lastParam.argv[LastOf(OccurrencesOf(lastParam.argv, n))].arg
            /\ ~p_map[n].use_default

C25_Witness ==
    \E n \in ParamNames :
        /\ RepeatedValid(n, "SINGLE_VALUE")
        /\ lastParam.argv[1].arg /= lastParam.argv[2].arg
        /\ p_map[n].value = lastParam.argv[2].arg

\* The arguments of the occurrences of n from position k on, joined by
\* commas in command-line order.
RECURSIVE Joined(_, _, _)
Joined(argv, n, k) ==
    IF k > Len(argv) THEN <<>>
    ELSE IF argv[k].name /= n THEN Joined(argv, n, k + 1)
    ELSE IF OccurrencesOf(argv, n) \cap (k + 1 .. Len(argv)) = {} THEN argv[k].arg
    ELSE argv[k].arg \o Comma \o Joined(argv, n, k + 1)

\* C26: after Parse_CommandLine, a MULTI_VALUE parameter that held its
\* default and is given more than once, each argument valid for its type,
\* holds "a1,a2,...,an" in command-line order.
C26_MultiValueAppended ==
    \A n \in ParamNames :
        RepeatedValid(n, "MULTI_VALUE") /\ lastParam.before[n].use_default =>
            p_map[n].value = Joined(lastParam.argv, n, 1)

\* The same for the parameters of type std::string only.
MultiValueStringsAppended ==
    \A n \in ParamNames :
        /\ RepeatedValid(n, "MULTI_VALUE")
        /\ lastParam.before[n].use_default
        /\ p_map[n].value_type_info = "std::string"
        => p_map[n].value = Joined(lastParam.argv, n, 1)

\* An occurrence the option loop rejects for its argument: a comma for a
\* SINGLE_VALUE parameter, or a string that is not valid for the type.
InvalidOccurrence(pm, occ) ==
    /\ GetOpt(pm, occ) = "option"
    /\ \/ HasFlag(pm[occ.name].flag, "SINGLE_VALUE")
          /\ HasComma(Argument(pm[occ.name], occ))
       \/ ~isValidString(Argument(pm[occ.name], occ),
                         pm[occ.name].value_type_info)

WithoutInvalid(pm, argv) ==
    LET Kept(occ) == ~InvalidOccurrence(pm, occ)
    IN  SelectSeq(argv, Kept)

\* C27: Parse_CommandLine leaves the registry as if the invalid
\* occurrences had not been on the command line: a parameter with invalid
\* occurrences only keeps its value and use_default, and the other
\* occurrences are applied as without them.
C27_InvalidOccurrenceSkipped ==
    lastParam.op = "Parse" =>
        /\ lastParam.status = cudaSuccess
        /\ p_map = Parse_CommandLine(lastParam.before,
                       WithoutInvalid(lastParam.before, lastParam.argv),
                       1, <<>>).p_map
        /\ \A n \in ParamNames :
              (\A k \in OccurrencesOf(lastParam.argv, n) :
                   InvalidOccurrence(lastParam.before, lastParam.argv[k]))
              => p_map[n] = lastParam.before[n]

C27_Witness ==
    /\ lastParam.op = "Parse"
    /\ Len(lastParam.argv) = 2
    /\ InvalidOccurrence(lastParam.before, lastParam.argv[1])
    /\ ValidOccurrence(lastParam.before, lastParam.argv[2])
    /\ p_map[lastParam.argv[2].name].value = lastParam.argv[2].arg
    /\ lastParam.before[lastParam.argv[2].name].value /= lastParam.argv[2].arg

\* C28: Get<bool> of a bool parameter whose value comes from an occurrence
\* without argument on the command line yields true, as it does after
\* Set<bool>(name, true).
C28_BoolSwitchReadsTrue ==
    /\ lastParam.op = "GetBool"
    /\ p_map[lastParam.name].value_type_info = "bool"
    /\ lastSet[lastParam.name].by \in {"ParseNoArgument", "SetBoolTrue"}
    => lastParam.status = cudaSuccess /\ lastParam.out = TRUE

\* The part of it after Set<bool>(name, true).
SetBoolTrueReadsTrue ==
    /\ lastParam.op = "GetBool"
    /\ lastSet[lastParam.name].by = "SetBoolTrue"
    => lastParam.status = cudaSuccess /\ lastParam.out = TRUE

====
